---- MODULE Spec2Model ----
(***************************************************************************)
(* Model of terraform-provider-prisma-postgres: the HTTP client of the     *)
(* Prisma Postgres Management API (internal/client/client.go), the         *)
(* project, database and connection resources built on it, and the remote  *)
(* API as the repository's own test servers implement it.                  *)
(*                                                                         *)
(* Go values are modelled structurally: a struct is a record with the Go   *)
(* field names, a pointer is a sequence of length 0 (nil) or 1, a JSON     *)
(* object is a function from its keys, a types.String is a record with its *)
(* state (null, unknown, known) and value.                                 *)
(***************************************************************************)
EXTENDS Integers, Sequences, FiniteSets, TLC

VARIABLES
    srv,    \* the remote API: the maps of mockAPIServer
    tf,     \* the Terraform state of the three managed resources
    last,   \* the operation performed by the last step, with its client call
    hist,   \* history: what creation delivered, which identifiers were deleted
    prov,   \* the API client in use and the construction that made it
    run     \* the calls in progress on the client, one per goroutine

vars == <<srv, tf, last, hist, prov, run>>

----------------------------------------------------------------------------
(* Identifiers, names and regions the operations are called with.          *)

ProjID == "proj_test1"
DbID == "db_test1"
ConnID == "conn_test1"
MissingID == "nonexistent"
BadID == "%zz"

PlanName == "test-project"
OtherName == "renamed"
Regions == {"us-east-1", "eu-west-3"}
CreatedAtStamp == "2025-01-07T00:00:00Z"

----------------------------------------------------------------------------
(* Go pointers and JSON objects.                                           *)

Nil == << >>
Ptr(v) == << v >>
IsNil(p) == p = Nil
Deref(p) == p[1]

Has(obj, key) == key \in DOMAIN obj
Field(obj, key, zero) == IF Has(obj, key) THEN obj[key] ELSE zero
Opt(present, obj) == IF present THEN obj ELSE << >>

EmptyObj == << >>
EmptyBody == [form |-> "empty", obj |-> EmptyObj]
MalformedBody == [form |-> "malformed", obj |-> EmptyObj]
JSONBody(obj) == [form |-> "json", obj |-> obj]

----------------------------------------------------------------------------
(* The API structs and their JSON encoding and decoding.                   *)

ZeroDatabase ==
    [ID |-> "", Name |-> "", Status |-> "", CreatedAt |-> "",
     Project |-> Nil, Region |-> Nil, ConnectionString |-> "",
     DirectConnection |-> Nil]
ZeroConnection ==
    [ID |-> "", Name |-> "", CreatedAt |-> "", Database |-> Nil,
     ConnectionString |-> "", Host |-> "", User |-> "", Pass |-> ""]

EncodeRef(r) == [id |-> r.ID, name |-> r.Name]
DecodeRef(o) == [ID |-> Field(o, "id", ""), Name |-> Field(o, "name", "")]

EncodeRegion(r) ==
    [id |-> r.ID, name |-> r.Name] @@ Opt(r.Status # "", [status |-> r.Status])
DecodeRegion(o) ==
    [ID |-> Field(o, "id", ""), Name |-> Field(o, "name", ""),
     Status |-> Field(o, "status", "")]

EncodeDirectConnection(d) == [host |-> d.Host, pass |-> d.Pass, user |-> d.User]
DecodeDirectConnection(o) ==
    [Host |-> Field(o, "host", ""), Pass |-> Field(o, "pass", ""),
     User |-> Field(o, "user", "")]

EncodeProject(p) == [id |-> p.ID, name |-> p.Name, createdAt |-> p.CreatedAt]
DecodeProject(o) ==
    [ID |-> Field(o, "id", ""), Name |-> Field(o, "name", ""),
     CreatedAt |-> Field(o, "createdAt", "")]

EncodeDatabase(d) ==
    [id |-> d.ID, name |-> d.Name, status |-> d.Status, createdAt |-> d.CreatedAt]
    @@ Opt(~IsNil(d.Project), [project |-> EncodeRef(Deref(d.Project))])
    @@ Opt(~IsNil(d.Region), [region |-> EncodeRegion(Deref(d.Region))])
    @@ Opt(d.ConnectionString # "", [connectionString |-> d.ConnectionString])
    @@ Opt(~IsNil(d.DirectConnection),
           [directConnection |-> EncodeDirectConnection(Deref(d.DirectConnection))])
DecodeDatabase(o) ==
    [ID |-> Field(o, "id", ""), Name |-> Field(o, "name", ""),
     Status |-> Field(o, "status", ""), CreatedAt |-> Field(o, "createdAt", ""),
     Project |-> IF Has(o, "project") THEN Ptr(DecodeRef(o.project)) ELSE Nil,
     Region |-> IF Has(o, "region") THEN Ptr(DecodeRegion(o.region)) ELSE Nil,
     ConnectionString |-> Field(o, "connectionString", ""),
     DirectConnection |->
        IF Has(o, "directConnection")
        THEN Ptr(DecodeDirectConnection(o.directConnection)) ELSE Nil]

EncodeConnection(c) ==
    [id |-> c.ID, name |-> c.Name, createdAt |-> c.CreatedAt]
    @@ Opt(~IsNil(c.Database), [database |-> EncodeRef(Deref(c.Database))])
    @@ Opt(c.ConnectionString # "", [connectionString |-> c.ConnectionString])
    @@ Opt(c.Host # "", [host |-> c.Host])
    @@ Opt(c.User # "", [user |-> c.User])
    @@ Opt(c.Pass # "", [pass |-> c.Pass])
DecodeConnection(o) ==
    [ID |-> Field(o, "id", ""), Name |-> Field(o, "name", ""),
     CreatedAt |-> Field(o, "createdAt", ""),
     Database |-> IF Has(o, "database") THEN Ptr(DecodeRef(o.database)) ELSE Nil,
     ConnectionString |-> Field(o, "connectionString", ""),
     Host |-> Field(o, "host", ""), User |-> Field(o, "user", ""),
     Pass |-> Field(o, "pass", "")]

EncodeCreateProjectRequest(name, createDatabase) ==
    [name |-> name, createDatabase |-> createDatabase]
EncodeCreateDatabaseRequest(name, region) ==
    [name |-> name, isDefault |-> FALSE] @@ Opt(region # "", [region |-> region])
EncodeCreateConnectionRequest(name) == [name |-> name]

----------------------------------------------------------------------------
(* The remote API, as mockAPIServer implements it after                    *)
(* SetupProjectHandlers, SetupDatabaseHandlers, SetupConnectionHandlers    *)
(* and SetupRegionHandlers have each run once: the identifiers the         *)
(* counters hand out are ProjID, DbID and ConnID, and the handlers are     *)
(* registered under the paths built from them.                             *)

StatusOK == 200
StatusNoContent == 204
StatusBadRequest == 400
StatusNotFound == 404

Put(m, k, v) == [x \in DOMAIN m \cup {k} |-> IF x = k THEN v ELSE m[x]]
Del(m, k) == [x \in DOMAIN m \ {k} |-> m[x]]

RECURSIVE MapValues(_)
MapValues(m) ==
    IF DOMAIN m = {} THEN << >>
    ELSE LET k == CHOOSE x \in DOMAIN m : TRUE
         IN  << m[k] >> \o MapValues(Del(m, k))

EncodeList(items, Enc(_)) == [i \in 1..Len(items) |-> Enc(items[i])]
DecodeList(objs, Dec(_)) == [i \in 1..Len(objs) |-> Dec(objs[i])]

Response(status, body, s) ==
    [kind |-> "response", status |-> status, body |-> body, srv |-> s]
\* A handler that panics: net/http drops the connection and the client's
\* round trip fails.
Aborted(s) == [kind |-> "transport", status |-> 0, body |-> EmptyBody, srv |-> s]

NotFoundBody == JSONBody([error |-> "not found"])

MockRegions ==
    << [ID |-> "us-east-1", Name |-> "US East (N. Virginia)", Status |-> "available"],
       [ID |-> "us-west-1", Name |-> "US West (N. California)", Status |-> "available"],
       [ID |-> "eu-west-3", Name |-> "Europe (Paris)", Status |-> "available"] >>

HandleCreateProject(reqBody, s) ==
    IF reqBody.form # "json" THEN Response(StatusBadRequest, EmptyBody, s)
    ELSE LET project == [ID |-> ProjID, Name |-> Field(reqBody.obj, "name", ""),
                         CreatedAt |-> CreatedAtStamp]
         IN  Response(StatusOK, JSONBody([data |-> EncodeProject(project)]),
                      [s EXCEPT !.projects = Put(@, project.ID, project)])

HandleGetProject(s) ==
    IF ProjID \notin DOMAIN s.projects THEN Response(StatusNotFound, NotFoundBody, s)
    ELSE Response(StatusOK, JSONBody([data |-> EncodeProject(s.projects[ProjID])]), s)

HandleDeleteProject(s) ==
    Response(StatusNoContent, EmptyBody, [s EXCEPT !.projects = Del(@, ProjID)])

\* The status the API gives a database on creation: "ready" in the mock,
\* unless the server provisions at its own pace.
DatabaseStatuses == {"provisioning", "ready", "failure", "recovering"}
CreatedStatus(s) == Field(s, "createdStatus", "ready")

\* The host of the direct connection of a new database: that of its
\* region in the mock, none when the server withholds it.
DirectHost(region, s) ==
    IF Field(s, "withholdsHost", FALSE) THEN "" ELSE region \o ".db.prisma-data.net"

HandleCreateDatabase(reqBody, s) ==
    IF reqBody.form # "json" THEN Response(StatusBadRequest, EmptyBody, s)
    ELSE LET reqRegion == Field(reqBody.obj, "region", "")
             region == IF reqRegion = "" THEN "us-east-1" ELSE reqRegion
             database ==
                [ID |-> DbID, Name |-> Field(reqBody.obj, "name", ""),
                 Status |-> CreatedStatus(s), CreatedAt |-> CreatedAtStamp,
                 Project |-> Nil,
                 Region |-> Ptr([ID |-> region, Name |-> "Test Region", Status |-> ""]),
                 ConnectionString |->
                    "prisma://accelerate.prisma-data.net/?api_key=test_key",
                 DirectConnection |->
                    Ptr([Host |-> DirectHost(region, s),
                         User |-> "prisma_user", Pass |-> "test_password"])]
         IN  Response(StatusOK, JSONBody([data |-> EncodeDatabase(database)]),
                      [s EXCEPT !.databases = Put(@, database.ID, database)])

HandleGetDatabase(s) ==
    IF DbID \notin DOMAIN s.databases THEN Response(StatusNotFound, NotFoundBody, s)
    ELSE IF ProjID \notin DOMAIN s.projects THEN Aborted(s)
    ELSE LET database == s.databases[DbID]
             project == s.projects[ProjID]
             resp == [ZeroDatabase EXCEPT
                        !.ID = database.ID, !.Name = database.Name,
                        !.Status = database.Status,
                        !.CreatedAt = database.CreatedAt,
                        !.Region = database.Region,
                        !.Project = Ptr([ID |-> project.ID, Name |-> project.Name])]
         IN  Response(StatusOK, JSONBody([data |-> EncodeDatabase(resp)]), s)

HandleDeleteDatabase(s) ==
    Response(StatusNoContent, EmptyBody, [s EXCEPT !.databases = Del(@, DbID)])

HandleCreateConnection(reqBody, s) ==
    IF reqBody.form # "json" THEN Response(StatusBadRequest, EmptyBody, s)
    ELSE LET connection ==
                [ID |-> ConnID, Name |-> Field(reqBody.obj, "name", ""),
                 CreatedAt |-> CreatedAtStamp, Database |-> Nil,
                 ConnectionString |->
                    "prisma://accelerate.prisma-data.net/?api_key=conn_test_key",
                 Host |-> "accelerate.prisma-data.net", User |-> "prisma",
                 Pass |-> "conn_test_password"]
         IN  Response(StatusOK, JSONBody([data |-> EncodeConnection(connection)]),
                      [s EXCEPT !.connections = Put(@, connection.ID, connection)])

\* The connections a paginating API lists before the others, and the page
\* of a listing it answers with: all of it when it does not paginate (the
\* mock), else the first PageSize entries, hasMore telling of the rest.
PageSize == 1
EarlierConnections(s) == Field(s, "earlier", << >>)
Paginates(s) == Has(s, "earlier")
FirstPage(listing, s) ==
    IF Paginates(s) /\ Len(listing) > PageSize
    THEN [data |-> SubSeq(listing, 1, PageSize),
          pagination |-> [hasMore |-> TRUE, nextCursor |-> listing[PageSize + 1].id]]
    ELSE [data |-> listing, pagination |-> [hasMore |-> FALSE]]

HandleListConnections(s) ==
    IF /\ DOMAIN s.connections # {} \/ EarlierConnections(s) # << >>
       /\ DbID \notin DOMAIN s.databases
    THEN Aborted(s)
    ELSE LET stored == EarlierConnections(s) \o MapValues(s.connections)
             conns == [i \in 1..Len(stored) |->
                        [ZeroConnection EXCEPT
                           !.ID = stored[i].ID, !.Name = stored[i].Name,
                           !.CreatedAt = stored[i].CreatedAt,
                           !.Database = Ptr([ID |-> s.databases[DbID].ID,
                                             Name |-> s.databases[DbID].Name])]]
         IN  Response(StatusOK,
                      JSONBody(FirstPage(EncodeList(conns, EncodeConnection), s)), s)

HandleDeleteConnection(s) ==
    Response(StatusNoContent, EmptyBody, [s EXCEPT !.connections = Del(@, ConnID)])

\* The regions the API reports: those the mock is set up with, unless the
\* server holds a list of its own.
ReportedRegions(s) == Field(s, "regions", MockRegions)

HandleListRegions(s) ==
    Response(StatusOK,
             JSONBody([data |-> EncodeList(ReportedRegions(s), EncodeRegion)]), s)

\* The server's dispatch on "METHOD path"; unhandled routes answer 404.
MockServe(method, path, reqBody, s) ==
    LET key == method \o " " \o path
    IN  CASE key = "POST /v1/projects" -> HandleCreateProject(reqBody, s)
          [] key = "GET /v1/projects/" \o ProjID -> HandleGetProject(s)
          [] key = "DELETE /v1/projects/" \o ProjID -> HandleDeleteProject(s)
          [] key = "POST /v1/projects/" \o ProjID \o "/databases" ->
                HandleCreateDatabase(reqBody, s)
          [] key = "GET /v1/databases/" \o DbID -> HandleGetDatabase(s)
          [] key = "DELETE /v1/databases/" \o DbID -> HandleDeleteDatabase(s)
          [] key = "POST /v1/databases/" \o DbID \o "/connections" ->
                HandleCreateConnection(reqBody, s)
          [] key = "GET /v1/databases/" \o DbID \o "/connections" ->
                HandleListConnections(s)
          [] key = "DELETE /v1/connections/" \o ConnID -> HandleDeleteConnection(s)
          [] key = "GET /v1/regions/postgres" -> HandleListRegions(s)
          [] OTHER -> Response(StatusNotFound, NotFoundBody, s)

(* What one round trip of the HTTP client can bring back: the answer of    *)
(* the mock API, or one of the outcomes the client's own tests and error   *)
(* branches provide for.                                                   *)
Faults ==
    {"none", "transport", "readfail", "badRequest", "notFound", "invalidJSON",
     "noContent"}

\* The caller's context is cancelled, or its deadline passes, while the
\* request is in flight: before the request reached the API, after the API
\* served it but before the response's status line and headers arrived, or
\* after Do returned, while the response body is read.
Cancellations == {"cancelledUnserved", "cancelledServed", "cancelledReading"}

\* Answers of a server whose error responses have no JSON body, and a
\* success answer with a body to an operation that may decode none.
StatusStubs == {"errorEmpty", "errorMalformed", "okUnread"}

RoundTrip(method, path, reqBody, fault, s) ==
    CASE fault = "none" -> MockServe(method, path, reqBody, s)
      [] fault = "transport" -> Aborted(s)
      [] fault = "readfail" ->
            [kind |-> "readfail", status |-> StatusNotFound,
             body |-> EmptyBody, srv |-> s]
      [] fault = "badRequest" ->
            Response(StatusBadRequest, JSONBody([error |-> "invalid request"]), s)
      [] fault = "notFound" ->
            Response(StatusNotFound, JSONBody([error |-> "project not found"]), s)
      [] fault = "invalidJSON" -> Response(StatusOK, MalformedBody, s)
      [] fault = "noContent" -> Response(StatusNoContent, EmptyBody, s)
      [] fault = "errorEmpty" -> Response(StatusNotFound, EmptyBody, s)
      [] fault = "errorMalformed" -> Response(StatusBadRequest, MalformedBody, s)
      [] fault = "okUnread" -> Response(StatusOK, JSONBody([message |-> "ok"]), s)
      [] fault = "cancelledUnserved" -> Aborted(s)
      [] fault = "cancelledServed" ->
            Aborted(MockServe(method, path, reqBody, s).srv)
      [] fault = "cancelledReading" ->
            [kind |-> "readfail",
             status |-> MockServe(method, path, reqBody, s).status,
             body |-> EmptyBody, srv |-> MockServe(method, path, reqBody, s).srv]

----------------------------------------------------------------------------
(* The HTTP client: doRequest and the one-call-per-operation methods.      *)

NoError ==
    [type |-> "nil", StatusCode |-> 0, Message |-> "", Body |-> EmptyBody,
     text |-> ""]
LocalError(text) ==
    [type |-> "error", StatusCode |-> 0, Message |-> "", Body |-> EmptyBody,
     text |-> text]

\* net/http's StatusText for the codes that occur.
StatusText(code) ==
    CASE code = 400 -> "Bad Request"
      [] code = 404 -> "Not Found"
      [] OTHER -> ""

APIError_NoBody(status, body) ==
    [type |-> "APIError", StatusCode |-> status, Message |-> StatusText(status),
     Body |-> EmptyBody, text |-> "Prisma API error"]
APIError(status, body) ==
    [type |-> "APIError", StatusCode |-> status, Message |-> StatusText(status),
     Body |-> body, text |-> "Prisma API error"]

\* net/url rejects a URL with a malformed percent escape or a control
\* character, so http.NewRequestWithContext fails for a path holding BadID.
URLParses(path) ==
    path \notin {"/v1/projects/" \o BadID,
                 "/v1/projects/" \o BadID \o "/databases",
                 "/v1/databases/" \o BadID,
                 "/v1/databases/" \o BadID \o "/connections",
                 "/v1/connections/" \o BadID}

IsErrorStatus_From500(status) == status >= 500
IsErrorStatus(status) == status >= 400

ShouldDecode(wantResult, respBody) == wantResult /\ respBody.form # "empty"

\* json.Unmarshal of a response body into the result struct.
Unmarshal_Lenient(respBody) == [ok |-> TRUE, obj |-> respBody.obj]
Unmarshal(respBody) ==
    IF respBody.form = "json"
    THEN [ok |-> TRUE, obj |-> respBody.obj]
    ELSE [ok |-> FALSE, obj |-> EmptyObj]

\* The exchanges one call makes: the client's Do is called once.
Attempt_Retrying(method, path, body, fault, s) ==
    LET first == RoundTrip(method, path, body, fault, s)
    IN  IF first.kind = "response" /\ ~IsErrorStatus(first.status)
        THEN [rt |-> first, sent |-> 1]
        ELSE [rt |-> RoundTrip(method, path, body, fault, first.srv), sent |-> 2]
Attempt(method, path, body, fault, s) ==
    [rt |-> RoundTrip(method, path, body, fault, s), sent |-> 1]

Unsent(err, fault, s) ==
    [sent |-> 0, fault |-> fault, kind |-> "unsent", status |-> 0, raw |-> EmptyBody,
     err |-> err, decoded |-> FALSE, obj |-> EmptyObj, srv |-> s]

doRequest_DecodingFirst(method, path, body, wantResult, fault, s) ==
    IF ~URLParses(path) THEN Unsent(LocalError("failed to create request"), fault, s)
    ELSE
    LET After(a) ==
            LET rt == a.rt
                done(err, decoded, obj) ==
                    [sent |-> a.sent, fault |-> fault, kind |-> rt.kind,
                     status |-> rt.status, raw |-> rt.body, err |-> err,
                     decoded |-> decoded, obj |-> obj, srv |-> rt.srv]
            IN  IF rt.kind = "transport"
                THEN done(LocalError("request failed"), FALSE, EmptyObj)
                ELSE IF rt.kind = "readfail"
                THEN done(LocalError("failed to read response body"), FALSE, EmptyObj)
                ELSE IF ShouldDecode(wantResult, rt.body)
                THEN LET u == Unmarshal(rt.body)
                     IN  IF ~u.ok
                         THEN done(LocalError("failed to decode response"),
                                   FALSE, EmptyObj)
                         ELSE IF IsErrorStatus(rt.status)
                         THEN done(APIError(rt.status, rt.body), TRUE, u.obj)
                         ELSE done(NoError, TRUE, u.obj)
                ELSE IF IsErrorStatus(rt.status)
                THEN done(APIError(rt.status, rt.body), FALSE, EmptyObj)
                ELSE done(NoError, FALSE, EmptyObj)
    IN  After(Attempt(method, path, body, fault, s))

(* doRequest.  body is the marshalled request body (EmptyBody for nil);    *)
(* the request structs hold only strings and booleans, which json.Marshal  *)
(* always encodes.  wantResult is result != nil.                           *)
doRequest(method, path, body, wantResult, fault, s) ==
    IF ~URLParses(path) THEN Unsent(LocalError("failed to create request"), fault, s)
    ELSE
    LET After(a) ==
            LET rt == a.rt
                done(err, decoded, obj) ==
                    [sent |-> a.sent, fault |-> fault, kind |-> rt.kind,
                     status |-> rt.status, raw |-> rt.body, err |-> err,
                     decoded |-> decoded, obj |-> obj, srv |-> rt.srv]
            IN  IF rt.kind = "transport"
                THEN done(LocalError("request failed"), FALSE, EmptyObj)
                ELSE IF rt.kind = "readfail"
                THEN done(LocalError("failed to read response body"), FALSE, EmptyObj)
                ELSE IF IsErrorStatus(rt.status)
                THEN done(APIError(rt.status, rt.body), FALSE, EmptyObj)
                ELSE IF ShouldDecode(wantResult, rt.body)
                THEN LET u == Unmarshal(rt.body)
                     IN  IF ~u.ok
                         THEN done(LocalError("failed to decode response"),
                                   FALSE, EmptyObj)
                         ELSE done(NoError, TRUE, u.obj)
                ELSE done(NoError, FALSE, EmptyObj)
    IN  After(Attempt(method, path, body, fault, s))

\* What a client method hands back: the request's record, the error, the
\* entity pointer (nil on error) or the slice.
Returned(op, arg, method, path, body, r, entity, list) ==
    [op |-> op, arg |-> arg, method |-> method, path |-> path,
     hasBody |-> body.form # "empty", reqBody |-> body, sent |-> r.sent,
     fault |-> r.fault,
     kind |-> r.kind,
     status |-> r.status, raw |-> r.raw, err |-> r.err, decoded |-> r.decoded,
     entity |-> entity, list |-> list, srv |-> r.srv]

Data(r) == Field(r.obj, "data", EmptyObj)

CreateProject(name, createDatabase, fault, s) ==
    LET path == "/v1/projects"
        body == JSONBody(EncodeCreateProjectRequest(name, createDatabase))
        Result(r) ==
            Returned("CreateProject", "", "POST", path, body, r,
                     IF r.err # NoError THEN Nil
                     ELSE Ptr(DecodeProject(Data(r))), << >>)
    IN  Result(doRequest("POST", path, body, TRUE, fault, s))

GetProject_Deleting(id, fault, s) ==
    LET path == "/v1/projects/" \o id
        Result(r) ==
            Returned("GetProject", id, "DELETE", path, EmptyBody, r,
                     IF r.err # NoError THEN Nil
                     ELSE Ptr(DecodeProject(Data(r))), << >>)
    IN  Result(doRequest("DELETE", path, EmptyBody, TRUE, fault, s))
GetProject(id, fault, s) ==
    LET path == "/v1/projects/" \o id
        Result(r) ==
            Returned("GetProject", id, "GET", path, EmptyBody, r,
                     IF r.err # NoError THEN Nil
                     ELSE Ptr(DecodeProject(Data(r))), << >>)
    IN  Result(doRequest("GET", path, EmptyBody, TRUE, fault, s))

DeleteProject_AsGet(id, fault, s) ==
    LET path == "/v1/projects/" \o id
        Result(r) ==
            Returned("DeleteProject", id, "GET", path, EmptyBody, r, Nil, << >>)
    IN  Result(doRequest("GET", path, EmptyBody, FALSE, fault, s))
DeleteProject(id, fault, s) ==
    LET path == "/v1/projects/" \o id
        Result(r) ==
            Returned("DeleteProject", id, "DELETE", path, EmptyBody, r, Nil, << >>)
    IN  Result(doRequest("DELETE", path, EmptyBody, FALSE, fault, s))

CreateDatabase(projectID, name, region, fault, s) ==
    LET path == "/v1/projects/" \o projectID \o "/databases"
        body == JSONBody(EncodeCreateDatabaseRequest(name, region))
        Result(r) ==
            Returned("CreateDatabase", projectID, "POST", path, body, r,
                     IF r.err # NoError THEN Nil
                     ELSE Ptr(DecodeDatabase(Data(r))), << >>)
    IN  Result(doRequest("POST", path, body, TRUE, fault, s))

GetDatabase(id, fault, s) ==
    LET path == "/v1/databases/" \o id
        Result(r) ==
            Returned("GetDatabase", id, "GET", path, EmptyBody, r,
                     IF r.err # NoError THEN Nil
                     ELSE Ptr(DecodeDatabase(Data(r))), << >>)
    IN  Result(doRequest("GET", path, EmptyBody, TRUE, fault, s))

DeleteDatabase(id, fault, s) ==
    LET path == "/v1/databases/" \o id
        Result(r) ==
            Returned("DeleteDatabase", id, "DELETE", path, EmptyBody, r, Nil, << >>)
    IN  Result(doRequest("DELETE", path, EmptyBody, FALSE, fault, s))

CreateConnection(databaseID, name, fault, s) ==
    LET path == "/v1/databases/" \o databaseID \o "/connections"
        body == JSONBody(EncodeCreateConnectionRequest(name))
        Result(r) ==
            Returned("CreateConnection", databaseID, "POST", path, body, r,
                     IF r.err # NoError THEN Nil
                     ELSE Ptr(DecodeConnection(Data(r))), << >>)
    IN  Result(doRequest("POST", path, body, TRUE, fault, s))

ListConnections(databaseID, fault, s) ==
    LET path == "/v1/databases/" \o databaseID \o "/connections"
        Result(r) ==
            Returned("ListConnections", databaseID, "GET", path, EmptyBody, r, Nil,
                     IF r.err # NoError THEN << >>
                     ELSE DecodeList(Field(r.obj, "data", << >>), DecodeConnection))
    IN  Result(doRequest("GET", path, EmptyBody, TRUE, fault, s))

DeleteConnection_UnderDatabase(id, fault, s) ==
    LET path == "/v1/databases/" \o id \o "/connections"
        Result(r) ==
            Returned("DeleteConnection", id, "DELETE", path, EmptyBody, r, Nil, << >>)
    IN  Result(doRequest("DELETE", path, EmptyBody, FALSE, fault, s))
DeleteConnection(id, fault, s) ==
    LET path == "/v1/connections/" \o id
        Result(r) ==
            Returned("DeleteConnection", id, "DELETE", path, EmptyBody, r, Nil, << >>)
    IN  Result(doRequest("DELETE", path, EmptyBody, FALSE, fault, s))

ListRegions(fault, s) ==
    LET path == "/v1/regions/postgres"
        Result(r) ==
            Returned("ListRegions", "", "GET", path, EmptyBody, r, Nil,
                     IF r.err # NoError THEN << >>
                     ELSE DecodeList(Field(r.obj, "data", << >>), DecodeRegion))
    IN  Result(doRequest("GET", path, EmptyBody, TRUE, fault, s))

----------------------------------------------------------------------------
(* Construction of the client, and what it puts on every request.          *)

BaseURL == "https://api.prisma.io"
DefaultTimeout == 30
DefaultUserAgent == "terraform-provider-prisma-postgres/1.0"
\* The URL of the test server, and the values the tests configure.
MockURL == "http://127.0.0.1:8080"
TestToken == "test-token"
TestAgent == "test-agent/1.0"
\* An http.Client the caller made, as distinct from the one NewClient makes.
CustomHTTPClient == [madeBy |-> "caller", Timeout |-> 0]

Config(serviceToken, userAgent, baseURL, httpClient) ==
    [ServiceToken |-> serviceToken, UserAgent |-> userAgent,
     BaseURL |-> baseURL, HTTPClient |-> httpClient]

NewClient_IgnoringBaseURL(cfg) ==
    [httpClient |-> IF IsNil(cfg.HTTPClient)
                    THEN [madeBy |-> "NewClient", Timeout |-> DefaultTimeout]
                    ELSE Deref(cfg.HTTPClient),
     serviceToken |-> cfg.ServiceToken,
     userAgent |-> IF cfg.UserAgent = "" THEN DefaultUserAgent ELSE cfg.UserAgent,
     baseURL |-> BaseURL]
NewClient(cfg) ==
    [httpClient |-> IF IsNil(cfg.HTTPClient)
                    THEN [madeBy |-> "NewClient", Timeout |-> DefaultTimeout]
                    ELSE Deref(cfg.HTTPClient),
     serviceToken |-> cfg.ServiceToken,
     userAgent |-> IF cfg.UserAgent = "" THEN DefaultUserAgent ELSE cfg.UserAgent,
     baseURL |-> IF cfg.BaseURL = "" THEN BaseURL ELSE cfg.BaseURL]

\* The header map doRequest sets on the request it built.
RequestHeaders_ContentTypeWithBody(cl, hasBody) ==
    [h \in {"Authorization", "Accept", "User-Agent"}
            \cup (IF hasBody THEN {"Content-Type"} ELSE {}) |->
        CASE h = "Authorization" -> "Bearer " \o cl.serviceToken
          [] h = "User-Agent" -> cl.userAgent
          [] OTHER -> "application/json"]
RequestHeaders(cl, hasBody) ==
    [h \in {"Authorization", "Content-Type", "Accept", "User-Agent"} |->
        CASE h = "Authorization" -> "Bearer " \o cl.serviceToken
          [] h = "User-Agent" -> cl.userAgent
          [] OTHER -> "application/json"]

\* The request of a call as client cl sends it: the URL under the client's
\* base URL and the headers; a call that built no request has neither.
AsSentBy(cl, c) ==
    IF c.sent = 0
    THEN c @@ [url |-> "", headers |-> EmptyObj]
    ELSE c @@ [url |-> cl.baseURL \o c.path,
               headers |-> RequestHeaders(cl, c.hasBody)]

----------------------------------------------------------------------------
(* The Terraform side: attribute values, resource state, diagnostics.      *)

Null == [st |-> "null", v |-> ""]
Unknown == [st |-> "unknown", v |-> ""]
StringValue(str) == [st |-> "known", v |-> str]
ValueString(a) == a.v

ProjectAttrs == {"id", "name", "created_at"}
DatabaseAttrs ==
    {"id", "project_id", "name", "region", "status", "created_at",
     "connection_string", "direct_url", "direct_host", "direct_user",
     "direct_password"}
ConnectionAttrs ==
    {"id", "database_id", "name", "created_at", "connection_string", "host",
     "user", "password"}
DatabaseSecrets ==
    {"connection_string", "direct_url", "direct_host", "direct_user",
     "direct_password"}
ConnectionSecrets == {"connection_string", "host", "user", "password"}

\* The attributes each schema flags Sensitive.
SensitiveAttrs_WithoutURL(res) ==
    CASE res = "provider" -> {"service_token"}
      [] res = "database" -> {"connection_string", "direct_password"}
      [] res = "connection" -> {"connection_string", "password"}
      [] OTHER -> {}
SensitiveAttrs(res) ==
    CASE res = "provider" -> {"service_token"}
      [] res = "database" -> {"connection_string", "direct_url", "direct_password"}
      [] res = "connection" -> {"connection_string", "password"}
      [] OTHER -> {}

Absent(attrNames) == [exists |-> FALSE, attrs |-> [a \in attrNames |-> Null]]
Stored(attrs) == [exists |-> TRUE, attrs |-> attrs]

NoDiag == [hasError |-> FALSE, summary |-> ""]
ErrorDiag(summary) == [hasError |-> TRUE, summary |-> summary]

\* The handlers' test for a resource that is gone remotely.
IsNotFound_AnyAPIError(err) == err.type = "APIError"
IsNotFound_Never(err) == FALSE
IsNotFound(err) == err.type = "APIError" /\ err.StatusCode = StatusNotFound

\* What a handler leaves behind: the response state, the diagnostics and
\* the client calls it made.
Outcome(state, diag, calls) == [state |-> state, diag |-> diag, calls |-> calls]

----------------------------------------------------------------------------
(* PrismaProvider.Configure.                                               *)

ProviderVersion == "test"
IsNull(a) == a.st = "null"
Env(serviceToken, baseURL) ==
    [PRISMA_SERVICE_TOKEN |-> serviceToken, PRISMA_API_BASE_URL |-> baseURL]

\* os.Getenv gives "" for a variable that is not set.
Configure_PreferringNonEmpty(config, env) ==
    LET serviceToken ==
            IF ~IsNull(config.service_token)
               /\ ValueString(config.service_token) # ""
            THEN ValueString(config.service_token)
            ELSE env.PRISMA_SERVICE_TOKEN
    IN  IF serviceToken = ""
        THEN [diag |-> ErrorDiag("Missing Prisma Service Token"), client |-> Nil,
              cfg |-> Nil]
        ELSE LET cfg == Config(serviceToken,
                               "terraform-provider-prisma-postgres/"
                                   \o ProviderVersion,
                               env.PRISMA_API_BASE_URL, Nil)
             IN  [diag |-> NoDiag, client |-> Ptr(NewClient(cfg)), cfg |-> Ptr(cfg)]
Configure(config, env) ==
    LET serviceToken ==
            IF ~IsNull(config.service_token)
            THEN ValueString(config.service_token)
            ELSE env.PRISMA_SERVICE_TOKEN
    IN  IF serviceToken = ""
        THEN [diag |-> ErrorDiag("Missing Prisma Service Token"), client |-> Nil,
              cfg |-> Nil]
        ELSE LET cfg == Config(serviceToken,
                               "terraform-provider-prisma-postgres/"
                                   \o ProviderVersion,
                               env.PRISMA_API_BASE_URL, Nil)
             IN  [diag |-> NoDiag, client |-> Ptr(NewClient(cfg)), cfg |-> Ptr(cfg)]

----------------------------------------------------------------------------
(* ProjectResource.                                                        *)

ProjectCreate(plan, fault, s) ==
    LET Then(c) ==
            IF c.err # NoError
            THEN Outcome(Absent(ProjectAttrs), ErrorDiag("Error creating project"), <<c>>)
            ELSE LET project == Deref(c.entity)
                 IN  Outcome(Stored([plan EXCEPT
                                       !.id = StringValue(project.ID),
                                       !.created_at = StringValue(project.CreatedAt)]),
                             NoDiag, <<c>>)
    IN  Then(CreateProject(ValueString(plan.name), FALSE, fault, s))

ProjectRead(prior, fault, s) ==
    LET state == prior.attrs
        Then(c) ==
            IF c.err # NoError
            THEN IF IsNotFound(c.err)
                 THEN Outcome(Absent(ProjectAttrs), NoDiag, <<c>>)
                 ELSE Outcome(prior, ErrorDiag("Error reading project"), <<c>>)
            ELSE LET project == Deref(c.entity)
                 IN  Outcome(Stored([state EXCEPT
                                       !.name = StringValue(project.Name),
                                       !.created_at = StringValue(project.CreatedAt)]),
                             NoDiag, <<c>>)
    IN  Then(GetProject(ValueString(state.id), fault, s))

ProjectUpdate(prior, plan, s) ==
    Outcome(prior, ErrorDiag("Update not supported"), << >>)

\* On a Delete that reports no error the framework removes the resource.
ProjectDelete_Forgetting(prior, fault, s) ==
    LET Then(c) == Outcome(Absent(ProjectAttrs), NoDiag, <<c>>)
    IN  Then(DeleteProject(ValueString(prior.attrs.id), fault, s))
ProjectDelete(prior, fault, s) ==
    LET Then(c) ==
            IF c.err # NoError /\ ~IsNotFound(c.err)
            THEN Outcome(prior, ErrorDiag("Error deleting project"), <<c>>)
            ELSE Outcome(Absent(ProjectAttrs), NoDiag, <<c>>)
    IN  Then(DeleteProject(ValueString(prior.attrs.id), fault, s))

ProjectImportState(id) ==
    Outcome(Stored([Absent(ProjectAttrs).attrs EXCEPT !.id = StringValue(id)]),
            NoDiag, << >>)

----------------------------------------------------------------------------
(* DatabaseResource.                                                       *)

DirectURL_UserLast(dc) ==
    "postgresql://" \o dc.Pass \o ":" \o dc.User \o "@" \o dc.Host \o ":5432/postgres"
DirectURL(dc) ==
    "postgresql://" \o dc.User \o ":" \o dc.Pass \o "@" \o dc.Host \o ":5432/postgres"

DatabaseCreate_Polling(plan, fault, s) ==
    LET Then(c) ==
            IF c.err # NoError
            THEN Outcome(Absent(DatabaseAttrs), ErrorDiag("Error creating database"), <<c>>)
            ELSE LET database == Deref(c.entity)
                     dc == database.DirectConnection
                     withIDs == [plan EXCEPT
                                   !.id = StringValue(database.ID),
                                   !.status = StringValue(database.Status),
                                   !.created_at = StringValue(database.CreatedAt),
                                   !.connection_string =
                                        StringValue(database.ConnectionString)]
                     withDirect ==
                        IF ~IsNil(dc)
                        THEN [withIDs EXCEPT
                                !.direct_host = StringValue(Deref(dc).Host),
                                !.direct_user = StringValue(Deref(dc).User),
                                !.direct_password = StringValue(Deref(dc).Pass),
                                !.direct_url =
                                    IF Deref(dc).Host # ""
                                    THEN StringValue(DirectURL(Deref(dc)))
                                    ELSE StringValue("")]
                        ELSE [withIDs EXCEPT
                                !.direct_host = StringValue(""),
                                !.direct_user = StringValue(""),
                                !.direct_password = StringValue(""),
                                !.direct_url = StringValue("")]
                     withRegion ==
                        IF ~IsNil(database.Region)
                        THEN [withDirect EXCEPT
                                !.region = StringValue(Deref(database.Region).ID)]
                        ELSE withDirect
                     Polled(g) ==
                        Outcome(Stored([withRegion EXCEPT
                                          !.status =
                                            IF g.err = NoError
                                            THEN StringValue(Deref(g.entity).Status)
                                            ELSE @]),
                                NoDiag, <<c, g>>)
                 IN  IF database.Status = "provisioning"
                     THEN Polled(GetDatabase(database.ID, "none", c.srv))
                     ELSE Outcome(Stored(withRegion), NoDiag, <<c>>)
    IN  Then(CreateDatabase(ValueString(plan.project_id), ValueString(plan.name),
                            ValueString(plan.region), fault, s))
DatabaseCreate_SkippingDirect(plan, fault, s) ==
    LET Then(c) ==
            IF c.err # NoError
            THEN Outcome(Absent(DatabaseAttrs), ErrorDiag("Error creating database"), <<c>>)
            ELSE LET database == Deref(c.entity)
                     dc == database.DirectConnection
                     withIDs == [plan EXCEPT
                                   !.id = StringValue(database.ID),
                                   !.status = StringValue(database.Status),
                                   !.created_at = StringValue(database.CreatedAt),
                                   !.connection_string =
                                        StringValue(database.ConnectionString)]
                     withDirect ==
                        IF ~IsNil(dc)
                        THEN [withIDs EXCEPT
                                !.direct_host = StringValue(Deref(dc).Host),
                                !.direct_user = StringValue(Deref(dc).User),
                                !.direct_password = StringValue(Deref(dc).Pass),
                                !.direct_url =
                                    IF Deref(dc).Host # ""
                                    THEN StringValue(DirectURL(Deref(dc)))
                                    ELSE StringValue("")]
                        ELSE withIDs
                     withRegion ==
                        IF ~IsNil(database.Region)
                        THEN [withDirect EXCEPT
                                !.region = StringValue(Deref(database.Region).ID)]
                        ELSE withDirect
                 IN  Outcome(Stored(withRegion), NoDiag, <<c>>)
    IN  Then(CreateDatabase(ValueString(plan.project_id), ValueString(plan.name),
                            ValueString(plan.region), fault, s))
DatabaseCreate(plan, fault, s) ==
    LET Then(c) ==
            IF c.err # NoError
            THEN Outcome(Absent(DatabaseAttrs), ErrorDiag("Error creating database"), <<c>>)
            ELSE LET database == Deref(c.entity)
                     dc == database.DirectConnection
                     withIDs == [plan EXCEPT
                                   !.id = StringValue(database.ID),
                                   !.status = StringValue(database.Status),
                                   !.created_at = StringValue(database.CreatedAt),
                                   !.connection_string =
                                        StringValue(database.ConnectionString)]
                     withDirect ==
                        IF ~IsNil(dc)
                        THEN [withIDs EXCEPT
                                !.direct_host = StringValue(Deref(dc).Host),
                                !.direct_user = StringValue(Deref(dc).User),
                                !.direct_password = StringValue(Deref(dc).Pass),
                                !.direct_url =
                                    IF Deref(dc).Host # ""
                                    THEN StringValue(DirectURL(Deref(dc)))
                                    ELSE StringValue("")]
                        ELSE [withIDs EXCEPT
                                !.direct_host = StringValue(""),
                                !.direct_user = StringValue(""),
                                !.direct_password = StringValue(""),
                                !.direct_url = StringValue("")]
                     withRegion ==
                        IF ~IsNil(database.Region)
                        THEN [withDirect EXCEPT
                                !.region = StringValue(Deref(database.Region).ID)]
                        ELSE withDirect
                 IN  Outcome(Stored(withRegion), NoDiag, <<c>>)
    IN  Then(CreateDatabase(ValueString(plan.project_id), ValueString(plan.name),
                            ValueString(plan.region), fault, s))

DatabaseRead_DropSecrets(prior, fault, s) ==
    LET state == prior.attrs
        Then(c) ==
            IF c.err # NoError
            THEN IF IsNotFound(c.err)
                 THEN Outcome(Absent(DatabaseAttrs), NoDiag, <<c>>)
                 ELSE Outcome(prior, ErrorDiag("Error reading database"), <<c>>)
            ELSE LET database == Deref(c.entity)
                 IN  Outcome(Stored([a \in DatabaseAttrs |->
                                       CASE a = "id" -> state.id
                                         [] a = "name" -> StringValue(database.Name)
                                         [] a = "status" -> StringValue(database.Status)
                                         [] a = "created_at" ->
                                                StringValue(database.CreatedAt)
                                         [] a = "connection_string" ->
                                                StringValue(database.ConnectionString)
                                         [] OTHER -> state[a]]),
                             NoDiag, <<c>>)
    IN  Then(GetDatabase(ValueString(state.id), fault, s))
DatabaseRead_TakingID(prior, fault, s) ==
    LET state == prior.attrs
        Then(c) ==
            IF c.err # NoError
            THEN IF IsNotFound(c.err)
                 THEN Outcome(Absent(DatabaseAttrs), NoDiag, <<c>>)
                 ELSE Outcome(prior, ErrorDiag("Error reading database"), <<c>>)
            ELSE LET database == Deref(c.entity)
                     basic == [state EXCEPT
                                 !.id = StringValue(database.ID),
                                 !.name = StringValue(database.Name),
                                 !.status = StringValue(database.Status),
                                 !.created_at = StringValue(database.CreatedAt)]
                     withProject ==
                        IF ~IsNil(database.Project)
                        THEN [basic EXCEPT
                                !.project_id = StringValue(Deref(database.Project).ID)]
                        ELSE basic
                     withRegion ==
                        IF ~IsNil(database.Region)
                        THEN [withProject EXCEPT
                                !.region = StringValue(Deref(database.Region).ID)]
                        ELSE withProject
                 IN  Outcome(Stored(withRegion), NoDiag, <<c>>)
    IN  Then(GetDatabase(ValueString(state.id), fault, s))
DatabaseRead(prior, fault, s) ==
    LET state == prior.attrs
        Then(c) ==
            IF c.err # NoError
            THEN IF IsNotFound(c.err)
                 THEN Outcome(Absent(DatabaseAttrs), NoDiag, <<c>>)
                 ELSE Outcome(prior, ErrorDiag("Error reading database"), <<c>>)
            ELSE LET database == Deref(c.entity)
                     basic == [state EXCEPT
                                 !.name = StringValue(database.Name),
                                 !.status = StringValue(database.Status),
                                 !.created_at = StringValue(database.CreatedAt)]
                     withProject ==
                        IF ~IsNil(database.Project)
                        THEN [basic EXCEPT
                                !.project_id = StringValue(Deref(database.Project).ID)]
                        ELSE basic
                     withRegion ==
                        IF ~IsNil(database.Region)
                        THEN [withProject EXCEPT
                                !.region = StringValue(Deref(database.Region).ID)]
                        ELSE withProject
                 IN  Outcome(Stored(withRegion), NoDiag, <<c>>)
    IN  Then(GetDatabase(ValueString(state.id), fault, s))

DatabaseUpdate_Applying(prior, plan, s) ==
    Outcome(Stored(plan), NoDiag, << >>)
DatabaseUpdate(prior, plan, s) ==
    Outcome(prior, ErrorDiag("Update not supported"), << >>)

DatabaseDelete_Strict(prior, fault, s) ==
    LET Then(c) ==
            IF c.err # NoError
            THEN Outcome(prior, ErrorDiag("Error deleting database"), <<c>>)
            ELSE Outcome(Absent(DatabaseAttrs), NoDiag, <<c>>)
    IN  Then(DeleteDatabase(ValueString(prior.attrs.id), fault, s))
DatabaseDelete(prior, fault, s) ==
    LET Then(c) ==
            IF c.err # NoError /\ ~IsNotFound(c.err)
            THEN Outcome(prior, ErrorDiag("Error deleting database"), <<c>>)
            ELSE Outcome(Absent(DatabaseAttrs), NoDiag, <<c>>)
    IN  Then(DeleteDatabase(ValueString(prior.attrs.id), fault, s))

DatabaseImportState(id) ==
    Outcome(Stored([Absent(DatabaseAttrs).attrs EXCEPT !.id = StringValue(id)]),
            NoDiag, << >>)

----------------------------------------------------------------------------
(* ConnectionResource.                                                     *)

ConnectionCreate_KeepingPlan(plan, fault, s) ==
    LET Then(c) ==
            IF c.err # NoError
            THEN Outcome(Stored(plan), ErrorDiag("Error creating connection"), <<c>>)
            ELSE LET connection == Deref(c.entity)
                 IN  Outcome(Stored([plan EXCEPT
                                       !.id = StringValue(connection.ID),
                                       !.created_at = StringValue(connection.CreatedAt),
                                       !.connection_string =
                                            StringValue(connection.ConnectionString),
                                       !.host = StringValue(connection.Host),
                                       !.user = StringValue(connection.User),
                                       !.password = StringValue(connection.Pass)]),
                             NoDiag, <<c>>)
    IN  Then(CreateConnection(ValueString(plan.database_id),
                              ValueString(plan.name), fault, s))
ConnectionCreate(plan, fault, s) ==
    LET Then(c) ==
            IF c.err # NoError
            THEN Outcome(Absent(ConnectionAttrs),
                         ErrorDiag("Error creating connection"), <<c>>)
            ELSE LET connection == Deref(c.entity)
                 IN  Outcome(Stored([plan EXCEPT
                                       !.id = StringValue(connection.ID),
                                       !.created_at = StringValue(connection.CreatedAt),
                                       !.connection_string =
                                            StringValue(connection.ConnectionString),
                                       !.host = StringValue(connection.Host),
                                       !.user = StringValue(connection.User),
                                       !.password = StringValue(connection.Pass)]),
                             NoDiag, <<c>>)
    IN  Then(CreateConnection(ValueString(plan.database_id),
                              ValueString(plan.name), fault, s))

\* The first listed connection with the wanted ID, as the loop finds it.
FindConnection(connections, id) ==
    LET hits == {i \in 1..Len(connections) : connections[i].ID = id}
    IN  IF hits = {} THEN Nil
        ELSE Ptr(connections[CHOOSE i \in hits : \A j \in hits : i <= j])

ConnectionRead_CopyingSecrets(prior, fault, s) ==
    LET state == prior.attrs
        Then(c) ==
            IF c.err # NoError
            THEN IF IsNotFound(c.err)
                 THEN Outcome(Absent(ConnectionAttrs), NoDiag, <<c>>)
                 ELSE Outcome(prior, ErrorDiag("Error reading connection"), <<c>>)
            ELSE LET conn == FindConnection(c.list, ValueString(state.id))
                 IN  IF IsNil(conn)
                     THEN Outcome(Absent(ConnectionAttrs), NoDiag, <<c>>)
                     ELSE Outcome(Stored([state EXCEPT
                                            !.name = StringValue(Deref(conn).Name),
                                            !.created_at =
                                                StringValue(Deref(conn).CreatedAt),
                                            !.password =
                                                StringValue(Deref(conn).Pass)]),
                                  NoDiag, <<c>>)
    IN  Then(ListConnections(ValueString(state.database_id), fault, s))
ConnectionRead(prior, fault, s) ==
    LET state == prior.attrs
        Then(c) ==
            IF c.err # NoError
            THEN IF IsNotFound(c.err)
                 THEN Outcome(Absent(ConnectionAttrs), NoDiag, <<c>>)
                 ELSE Outcome(prior, ErrorDiag("Error reading connection"), <<c>>)
            ELSE LET conn == FindConnection(c.list, ValueString(state.id))
                 IN  IF IsNil(conn)
                     THEN Outcome(Absent(ConnectionAttrs), NoDiag, <<c>>)
                     ELSE Outcome(Stored([state EXCEPT
                                            !.name = StringValue(Deref(conn).Name),
                                            !.created_at =
                                                StringValue(Deref(conn).CreatedAt)]),
                                  NoDiag, <<c>>)
    IN  Then(ListConnections(ValueString(state.database_id), fault, s))

\* An import identifier is written as a sequence of pieces, each a comma
\* or a run of other characters; Text is the string Terraform hands over.
RECURSIVE Text(_)
Text(pieces) ==
    IF pieces = << >> THEN "" ELSE Head(pieces) \o Text(Tail(pieces))

\* strings.Split(id, ","): the runs between the commas, empty ones included.
RECURSIVE Split(_)
Split(pieces) ==
    IF pieces = << >> THEN << "" >>
    ELSE LET Onto(rest) ==
                IF Head(pieces) = "," THEN << "" >> \o rest
                ELSE << Head(pieces) \o Head(rest) >> \o Tail(rest)
         IN  Onto(Split(Tail(pieces)))

ConnectionImportState_FirstTwoParts(id) ==
    LET Check(idParts) ==
            IF Len(idParts) < 2 \/ idParts[1] = "" \/ idParts[2] = ""
            THEN Outcome(Absent(ConnectionAttrs),
                         ErrorDiag("Unexpected Import Identifier"), << >>)
            ELSE Outcome(Stored([Absent(ConnectionAttrs).attrs EXCEPT
                                   !.database_id = StringValue(idParts[1]),
                                   !.id = StringValue(idParts[2])]),
                         NoDiag, << >>)
    IN  Check(Split(id))
ConnectionImportState(id) ==
    LET Check(idParts) ==
            IF Len(idParts) # 2 \/ idParts[1] = "" \/ idParts[2] = ""
            THEN Outcome(Absent(ConnectionAttrs),
                         ErrorDiag("Unexpected Import Identifier"), << >>)
            ELSE Outcome(Stored([Absent(ConnectionAttrs).attrs EXCEPT
                                   !.database_id = StringValue(idParts[1]),
                                   !.id = StringValue(idParts[2])]),
                         NoDiag, << >>)
    IN  Check(Split(id))

ConnectionUpdate(prior, plan, s) ==
    Outcome(prior, ErrorDiag("Update not supported"), << >>)

ConnectionDelete(prior, fault, s) ==
    LET Then(c) ==
            IF c.err # NoError /\ ~IsNotFound(c.err)
            THEN Outcome(prior, ErrorDiag("Error deleting connection"), <<c>>)
            ELSE Outcome(Absent(ConnectionAttrs), NoDiag, <<c>>)
    IN  Then(DeleteConnection(ValueString(prior.attrs.id), fault, s))

----------------------------------------------------------------------------
(* The state machine.  A step is one call of a client method by a caller   *)
(* of the client package, or one operation of a resource, which Terraform  *)
(* invokes according to whether the resource is in its state.              *)

\* RegionsDataSource.Read: the regions attribute, or none on an error.
RegionModel(region) ==
    [id |-> StringValue(region.ID), name |-> StringValue(region.Name),
     status |-> StringValue(region.Status)]
RECURSIVE Distinct(_)
Distinct(items) ==
    IF items = << >> THEN << >>
    ELSE LET Onto(rest) ==
                IF \E i \in 1..Len(rest) : rest[i] = items[Len(items)]
                THEN rest ELSE Append(rest, items[Len(items)])
         IN  Onto(Distinct(SubSeq(items, 1, Len(items) - 1)))
RegionsRead_Distinct(fault, s) ==
    LET Then(c) ==
            IF c.err # NoError
            THEN [data |-> Nil, diag |-> ErrorDiag("Error reading regions"),
                  calls |-> <<c>>]
            ELSE [data |-> Ptr(Distinct([i \in 1..Len(c.list) |->
                                            RegionModel(c.list[i])])),
                  diag |-> NoDiag, calls |-> <<c>>]
    IN  Then(ListRegions(fault, s))
RegionsRead(fault, s) ==
    LET Then(c) ==
            IF c.err # NoError
            THEN [data |-> Nil, diag |-> ErrorDiag("Error reading regions"),
                  calls |-> <<c>>]
            ELSE [data |-> Ptr([i \in 1..Len(c.list) |-> RegionModel(c.list[i])]),
                  diag |-> NoDiag, calls |-> <<c>>]
    IN  Then(ListRegions(fault, s))

Resources == {"project", "database", "connection"}
AttrsOf(res) ==
    CASE res = "project" -> ProjectAttrs
      [] res = "database" -> DatabaseAttrs
      [] res = "connection" -> ConnectionAttrs
SecretsOf(res) ==
    CASE res = "project" -> {}
      [] res = "database" -> DatabaseSecrets
      [] res = "connection" -> ConnectionSecrets

CreateOps == {"CreateProject", "CreateDatabase", "CreateConnection"}
GetOps == {"GetProject", "GetDatabase"}
DeleteOps == {"DeleteProject", "DeleteDatabase", "DeleteConnection"}
KindOf(op) ==
    CASE op \in {"CreateProject", "GetProject", "DeleteProject"} -> "project"
      [] op \in {"CreateDatabase", "GetDatabase", "DeleteDatabase"} -> "database"
      [] op \in {"CreateConnection", "ListConnections", "DeleteConnection"} ->
            "connection"
      [] OTHER -> "region"

Bare(c) == AsSentBy(Deref(prov.client), [f \in DOMAIN c \ {"srv"} |-> c[f]])
BareCalls(calls) == [i \in 1..Len(calls) |-> Bare(calls[i])]
SrvAfter(calls, s) == IF calls = << >> THEN s ELSE calls[Len(calls)].srv

\* History of the calls a caller of the client made and the API itself
\* served, for the entities that have a get: the identifiers successful
\* creates returned, and those deleted and not created again since.
RECURSIVE Noted(_, _)
Noted(h, calls) ==
    IF calls = << >> THEN h
    ELSE LET c == Head(calls)
             ok == /\ c.err = NoError
                   /\ c.fault = "none"
                   /\ KindOf(c.op) \in {"project", "database"}
             h1 ==
                IF ok /\ c.op \in CreateOps
                THEN [h EXCEPT
                        !.created = @ \cup {<<KindOf(c.op), Deref(c.entity).ID>>},
                        !.deleted = @ \ {<<KindOf(c.op), Deref(c.entity).ID>>}]
                ELSE IF ok /\ c.op \in DeleteOps
                THEN [h EXCEPT !.deleted = @ \cup {<<KindOf(c.op), c.arg>>}]
                ELSE h
         IN  Noted(h1, Tail(calls))

NoneIssued == [has |-> FALSE, attrs |-> << >>]
Issued(res, op, o, before) ==
    IF op = "Create" /\ o.state.exists
    THEN [has |-> TRUE, attrs |-> [a \in SecretsOf(res) |-> o.state.attrs[a]]]
    ELSE IF ~o.state.exists \/ op = "ImportState" THEN NoneIssued
    ELSE before
\* Whether the resource in the state came there by import.
Imported(op, o, before) ==
    IF op = "ImportState" /\ o.state.exists THEN TRUE
    ELSE IF op = "Create" \/ ~o.state.exists THEN FALSE
    ELSE before

\* What made the client: nothing yet, NewClient called with cfg, or the
\* provider's Configure run on a configuration under an environment.
NoEnv == Env("", "")
NoConfig == [service_token |-> Null]
Unconfigured ==
    [op |-> "none", config |-> NoConfig, env |-> NoEnv, cfg |-> Nil,
     diag |-> NoDiag, client |-> Nil]
Constructed(cfg) ==
    [op |-> "NewClient", config |-> NoConfig, env |-> NoEnv, cfg |-> Ptr(cfg),
     diag |-> NoDiag, client |-> Ptr(NewClient(cfg))]
Configured(config, env) ==
    LET With(r) ==
            [op |-> "Configure", config |-> config, env |-> env, cfg |-> r.cfg,
             diag |-> r.diag, client |-> r.client]
    IN  With(Configure(config, env))

\* The environment the provider's acceptance tests set, and the client the
\* client's own tests build.
TestEnv == Env(TestToken, MockURL)
TestConfig == Config(TestToken, "", MockURL, Ptr(CustomHTTPClient))

\* The goroutines calling the client, and what each holds of its call: the
\* call it was asked to make, and the locals of doRequest (the request
\* built, the response read) until the result is returned.
Goroutines == {1, 2}
NoCall == [op |-> "", id |-> "", fault |-> "none"]
Idle ==
    [pc |-> "idle", call |-> NoCall, req |-> NoCall, resp |-> Nil, served |-> Nil,
     ret |-> Nil]

Fresh ==
    /\ run = [g \in Goroutines |-> Idle]
    /\ srv = [projects |-> << >>, databases |-> << >>, connections |-> << >>]
    /\ tf = [res \in Resources |-> Absent(AttrsOf(res))]
    /\ last = [op |-> "none", res |-> "", calls |-> << >>, diag |-> NoDiag]
    /\ hist = [issued |-> [res \in Resources |-> NoneIssued],
               imported |-> [res \in Resources |-> FALSE],
               created |-> {}, deleted |-> {}]

\* The provider configured as in its tests, nothing created yet.
Init == Fresh /\ prov = Configured(NoConfig, TestEnv)

\* The client made by newTestClient, nothing created yet.
ClientInit == Fresh /\ prov = Constructed(TestConfig)

\* Neither the provider configured nor a client made.
ConfigInit == Fresh /\ prov = Unconfigured

\* A call of a client method from outside the provider.
Called(c) ==
    /\ srv' = c.srv
    /\ last' = [op |-> "call", res |-> "", calls |-> <<Bare(c)>>, diag |-> NoDiag]
    /\ hist' = Noted(hist, <<c>>)
    /\ UNCHANGED <<tf, prov, run>>

\* An operation of a resource.
Applied(res, op, o) ==
    /\ srv' = SrvAfter(o.calls, srv)
    /\ tf' = [tf EXCEPT ![res] = o.state]
    /\ last' = [op |-> op, res |-> res, calls |-> BareCalls(o.calls), diag |-> o.diag]
    /\ hist' = [hist EXCEPT !.issued[res] = Issued(res, op, o, @),
                             !.imported[res] = Imported(op, o, @)]
    /\ UNCHANGED <<prov, run>>

\* A Create of a resource whose plan Terraform made of a configuration.
AppliedCreate(res, config, plan, o) ==
    /\ srv' = SrvAfter(o.calls, srv)
    /\ tf' = [tf EXCEPT ![res] = o.state]
    /\ last' = [op |-> "Create", res |-> res, calls |-> BareCalls(o.calls),
                diag |-> o.diag, config |-> config, plan |-> plan]
    /\ hist' = [hist EXCEPT !.issued[res] = Issued(res, "Create", o, @),
                             !.imported[res] = Imported("Create", o, @)]
    /\ UNCHANGED <<prov, run>>

\* An import of a resource under the identifier given on the command line.
AppliedImport(res, id, o) ==
    /\ UNCHANGED <<srv, prov, run>>
    /\ tf' = [tf EXCEPT ![res] = o.state]
    /\ last' = [op |-> "ImportState", res |-> res, calls |-> << >>,
                diag |-> o.diag, id |-> id]
    /\ hist' = [hist EXCEPT !.issued[res] = Issued(res, "ImportState", o, @),
                             !.imported[res] = Imported("ImportState", o, @)]

ProjectIDs == {ProjID, MissingID, BadID}
DatabaseIDs == {DbID, MissingID, BadID}
ConnectionIDs == {ConnID, MissingID, BadID}

CallCreateProject ==
    \E f \in Faults : Called(CreateProject(PlanName, FALSE, f, srv))
CallGetProject ==
    \E id \in ProjectIDs, f \in Faults : Called(GetProject(id, f, srv))
CallDeleteProject ==
    \E id \in ProjectIDs, f \in Faults : Called(DeleteProject(id, f, srv))
CallCreateDatabase ==
    \E pid \in ProjectIDs, region \in {"", "eu-west-3"}, f \in Faults :
        Called(CreateDatabase(pid, PlanName, region, f, srv))
CallGetDatabase ==
    \E id \in DatabaseIDs, f \in Faults : Called(GetDatabase(id, f, srv))
CallDeleteDatabase ==
    \E id \in DatabaseIDs, f \in Faults : Called(DeleteDatabase(id, f, srv))
CallCreateConnection ==
    \E did \in DatabaseIDs, f \in Faults :
        Called(CreateConnection(did, PlanName, f, srv))
CallListConnections ==
    \E did \in DatabaseIDs, f \in Faults : Called(ListConnections(did, f, srv))
CallDeleteConnection ==
    \E id \in ConnectionIDs, f \in Faults : Called(DeleteConnection(id, f, srv))
CallListRegions ==
    \E f \in Faults : Called(ListRegions(f, srv))

ProjectPlan(name) ==
    [id |-> Unknown, name |-> StringValue(name), created_at |-> Unknown]
DatabasePlan(pid, name, region) ==
    [a \in DatabaseAttrs |->
        CASE a = "project_id" -> StringValue(pid)
          [] a = "name" -> StringValue(name)
          [] a = "region" -> StringValue(region)
          [] OTHER -> Unknown]
\* The configuration of a database, whose region may be left out (null),
\* and the plan Terraform makes of it: the schema gives region a default.
DatabaseConfig(pid, name, region) ==
    [project_id |-> StringValue(pid), name |-> StringValue(name), region |-> region]
PlanDatabase_NoDefault(config) ==
    [DatabasePlan(ValueString(config.project_id), ValueString(config.name), "")
        EXCEPT !.region = IF IsNull(config.region) THEN Unknown ELSE config.region]
PlanDatabase(config) ==
    [DatabasePlan(ValueString(config.project_id), ValueString(config.name), "")
        EXCEPT !.region = IF IsNull(config.region) THEN StringValue("us-east-1")
                          ELSE config.region]
RegionConfigs == {Null, StringValue("")} \cup {StringValue(r) : r \in Regions}
ConnectionPlan(did, name) ==
    [a \in ConnectionAttrs |->
        CASE a = "database_id" -> StringValue(did)
          [] a = "name" -> StringValue(name)
          [] OTHER -> Unknown]

\* The configuration applied manages one resource at a time; the resources
\* it depends on exist remotely through Elsewhere.
NothingManaged == \A res \in Resources : ~tf[res].exists

DoProjectCreate ==
    /\ NothingManaged
    /\ \E f \in Faults :
          Applied("project", "Create", ProjectCreate(ProjectPlan(PlanName), f, srv))
DoProjectRead ==
    /\ tf.project.exists
    /\ \E f \in Faults : Applied("project", "Read", ProjectRead(tf.project, f, srv))
DoProjectUpdate ==
    /\ tf.project.exists
    /\ \E name \in {PlanName, OtherName} :
          Applied("project", "Update",
                  ProjectUpdate(tf.project,
                                [tf.project.attrs EXCEPT !.name = StringValue(name)],
                                srv))
DoProjectDelete ==
    /\ tf.project.exists
    /\ \E f \in Faults :
          Applied("project", "Delete", ProjectDelete(tf.project, f, srv))
DoDatabaseCreate ==
    /\ NothingManaged
    /\ \E pid \in {ProjID, MissingID}, region \in RegionConfigs, f \in Faults :
          AppliedCreate("database", DatabaseConfig(pid, PlanName, region),
                        PlanDatabase(DatabaseConfig(pid, PlanName, region)),
                        DatabaseCreate(
                            PlanDatabase(DatabaseConfig(pid, PlanName, region)),
                            f, srv))
DoDatabaseRead ==
    /\ tf.database.exists
    /\ \E f \in Faults :
          Applied("database", "Read", DatabaseRead(tf.database, f, srv))
DoDatabaseUpdate ==
    /\ tf.database.exists
    /\ \E name \in {PlanName, OtherName} :
          Applied("database", "Update",
                  DatabaseUpdate(tf.database,
                                 [tf.database.attrs EXCEPT !.name = StringValue(name)],
                                 srv))
DoDatabaseDelete ==
    /\ tf.database.exists
    /\ \E f \in Faults :
          Applied("database", "Delete", DatabaseDelete(tf.database, f, srv))
DoConnectionCreate ==
    /\ NothingManaged
    /\ \E did \in {DbID, MissingID}, f \in Faults :
          Applied("connection", "Create",
                  ConnectionCreate(ConnectionPlan(did, PlanName), f, srv))
DoConnectionRead ==
    /\ tf.connection.exists
    /\ \E f \in Faults :
          Applied("connection", "Read", ConnectionRead(tf.connection, f, srv))
DoConnectionUpdate ==
    /\ tf.connection.exists
    /\ \E name \in {PlanName, OtherName} :
          Applied("connection", "Update",
                  ConnectionUpdate(tf.connection,
                                   [tf.connection.attrs EXCEPT
                                      !.name = StringValue(name)],
                                   srv))
DoConnectionDelete ==
    /\ tf.connection.exists
    /\ \E f \in Faults :
          Applied("connection", "Delete",
                  ConnectionDelete(tf.connection, f, srv))

MaxImportLen == 4
ImportPieces == {DbID, ConnID, ","}
ImportIDs == UNION {[1..n -> ImportPieces] : n \in 0..MaxImportLen}
PlainImportIDs == {<<ProjID>>, <<DbID>>, <<MissingID>>, <<DbID, ",", ConnID>>}
PairImportIDs == {<<DbID, ",", ConnID>>, <<MissingID, ",", ConnID>>, <<DbID>>}

DoProjectImport ==
    /\ NothingManaged
    /\ \E id \in PlainImportIDs :
          AppliedImport("project", id, ProjectImportState(Text(id)))
DoDatabaseImport ==
    /\ NothingManaged
    /\ \E id \in PlainImportIDs :
          AppliedImport("database", id, DatabaseImportState(Text(id)))
DoConnectionImport ==
    /\ NothingManaged
    /\ \E id \in PairImportIDs :
          AppliedImport("connection", id, ConnectionImportState(id))
\* Import of a connection under whatever is typed as its identifier.
DoConnectionImportAny ==
    /\ NothingManaged
    /\ \E id \in ImportIDs :
          AppliedImport("connection", id, ConnectionImportState(id))

ClientNext ==
    \/ CallCreateProject
    \/ CallGetProject
    \/ CallDeleteProject
    \/ CallCreateDatabase
    \/ CallGetDatabase
    \/ CallDeleteDatabase
    \/ CallCreateConnection
    \/ CallListConnections
    \/ CallDeleteConnection
    \/ CallListRegions

ProviderNext ==
    \/ DoProjectCreate
    \/ DoProjectRead
    \/ DoProjectUpdate
    \/ DoProjectDelete
    \/ DoDatabaseCreate
    \/ DoDatabaseRead
    \/ DoDatabaseUpdate
    \/ DoDatabaseDelete
    \/ DoConnectionCreate
    \/ DoConnectionRead
    \/ DoConnectionUpdate
    \/ DoConnectionDelete
    \/ DoProjectImport
    \/ DoDatabaseImport
    \/ DoConnectionImport

\* Another user of the same API account changes the remote resources.
Elsewhere ==
    \E c \in {CreateProject(OtherName, FALSE, "none", srv),
              DeleteProject(ProjID, "none", srv),
              CreateDatabase(ProjID, OtherName, "", "none", srv),
              DeleteDatabase(DbID, "none", srv),
              CreateConnection(DbID, OtherName, "none", srv),
              DeleteConnection(ConnID, "none", srv)} :
        /\ srv' = c.srv
        /\ UNCHANGED <<tf, last, hist, prov, run>>

Next == ProviderNext \/ Elsewhere

\* Construction of the client: by a caller of NewClient, or by Terraform
\* configuring the provider, once per provider process.
AttrToken == "attr-token"
EnvToken == "env-token"
ProviderConfigs ==
    {[service_token |-> t] :
        t \in {Null, Unknown, StringValue(""), StringValue(AttrToken)}}
Envs == {Env(t, b) : t \in {"", EnvToken}, b \in {"", MockURL}}
ClientConfigs ==
    {Config(t, ua, b, hc) :
        t \in {"", TestToken}, ua \in {"", TestAgent}, b \in {"", MockURL},
        hc \in {Nil, Ptr(CustomHTTPClient)}}

Reconfigured(p) ==
    /\ prov.op = "none"
    /\ prov' = p
    /\ UNCHANGED <<srv, tf, last, hist, run>>

DoConfigure ==
    \E config \in ProviderConfigs, env \in Envs : Reconfigured(Configured(config, env))
DoNewClient ==
    \E cfg \in ClientConfigs : Reconfigured(Constructed(cfg))

\* One call of each client method on the client so made.
ConfiguredCall ==
    /\ ~IsNil(prov.client)
    /\ \E c \in {CreateProject(PlanName, FALSE, "none", srv),
                  GetProject(ProjID, "none", srv),
                  GetProject(BadID, "none", srv),
                  DeleteProject(ProjID, "none", srv),
                  CreateDatabase(ProjID, PlanName, "", "none", srv),
                  GetDatabase(DbID, "none", srv),
                  DeleteDatabase(DbID, "none", srv),
                  CreateConnection(DbID, PlanName, "none", srv),
                  ListConnections(DbID, "none", srv),
                  DeleteConnection(ConnID, "none", srv),
                  ListRegions("none", srv)} : Called(c)

ConfigNext == DoConfigure \/ DoNewClient \/ ConfiguredCall

\* The resources under Terraform, with the remote changing under them.
Spec == Init /\ [][Next]_vars

\* Operations whose context is cancelled while their request is in flight.
CreateOf(res, fault, s) ==
    CASE res = "project" -> ProjectCreate(ProjectPlan(PlanName), fault, s)
      [] res = "database" ->
            DatabaseCreate(PlanDatabase(DatabaseConfig(ProjID, PlanName, Null)),
                           fault, s)
      [] res = "connection" ->
            ConnectionCreate(ConnectionPlan(DbID, PlanName), fault, s)
ReadOf(res, fault, s) ==
    CASE res = "project" -> ProjectRead(tf.project, fault, s)
      [] res = "database" -> DatabaseRead(tf.database, fault, s)
      [] res = "connection" -> ConnectionRead(tf.connection, fault, s)
DeleteOf(res, fault, s) ==
    CASE res = "project" -> ProjectDelete(tf.project, fault, s)
      [] res = "database" -> DatabaseDelete(tf.database, fault, s)
      [] res = "connection" -> ConnectionDelete(tf.connection, fault, s)

CancelledCreate ==
    /\ NothingManaged
    /\ \E res \in Resources, f \in Cancellations :
          Applied(res, "Create", CreateOf(res, f, srv))
CancelledRead ==
    \E res \in Resources, f \in Cancellations :
        /\ tf[res].exists
        /\ Applied(res, "Read", ReadOf(res, f, srv))
CancelledDelete ==
    \E res \in Resources, f \in Cancellations :
        /\ tf[res].exists
        /\ Applied(res, "Delete", DeleteOf(res, f, srv))
CancelledCall ==
    \E f \in Cancellations :
        \E c \in {CreateProject(PlanName, FALSE, f, srv), GetProject(ProjID, f, srv),
                  DeleteProject(ProjID, f, srv),
                  CreateDatabase(ProjID, PlanName, "", f, srv),
                  GetDatabase(DbID, f, srv), DeleteDatabase(DbID, f, srv),
                  CreateConnection(DbID, PlanName, f, srv),
                  ListConnections(DbID, f, srv), DeleteConnection(ConnID, f, srv),
                  ListRegions(f, srv)} : Called(c)

CancelNext ==
    \/ CancelledCreate
    \/ CancelledRead
    \/ CancelledDelete
    \/ CancelledCall
    \/ DoProjectCreate
    \/ DoDatabaseCreate
    \/ DoConnectionCreate
    \/ Elsewhere

CancelSpec == Init /\ [][CancelNext]_vars

\* Connections against an API that paginates its listings and holds a
\* page of connections of the same database made before the managed one.
EarlierConnection(i) ==
    [ZeroConnection EXCEPT !.ID = "conn_earlier" \o ToString(i),
                           !.Name = OtherName, !.CreatedAt = CreatedAtStamp]
Paginated ==
    /\ ~Paginates(srv)
    /\ srv' = Put(srv, "earlier", [i \in 1..PageSize |-> EarlierConnection(i)])
    /\ UNCHANGED <<tf, last, hist, prov, run>>

PagingNext ==
    \/ Paginated
    \/ Elsewhere
    \/ DoConnectionCreate
    \/ DoConnectionRead
    \/ DoConnectionDelete

PagingSpec == Init /\ [][PagingNext]_vars

\* Databases against an API that may give no host for the direct connection.
HostWithheld ==
    /\ \E withheld \in BOOLEAN : srv' = Put(srv, "withholdsHost", withheld)
    /\ UNCHANGED <<tf, last, hist, prov, run>>

DirectNext ==
    \/ HostWithheld
    \/ DoDatabaseCreate
    \/ DoDatabaseRead
    \/ DoDatabaseDelete

DirectSpec == Init /\ [][DirectNext]_vars

\* Calls against a server that answers with any status and body.
StubbedCall ==
    \E f \in Faults \cup StatusStubs :
        \E c \in {CreateProject(PlanName, FALSE, f, srv), GetProject(ProjID, f, srv),
                  DeleteProject(ProjID, f, srv),
                  CreateDatabase(ProjID, PlanName, "", f, srv),
                  GetDatabase(DbID, f, srv), DeleteDatabase(DbID, f, srv),
                  CreateConnection(DbID, PlanName, f, srv),
                  ListConnections(DbID, f, srv), DeleteConnection(ConnID, f, srv),
                  ListRegions(f, srv)} : Called(c)

DecodeSpec == ClientInit /\ [][StubbedCall]_vars

\* Calls made concurrently on one client.  Each call has its own request
\* and response: they are local variables of doRequest and of the method.
LocalsOf_Shared(g) == 1
LocalsOf(g) == g

ConcurrentCalls ==
    {[op |-> op, id |-> ProjID, fault |-> f] :
        op \in {"CreateProject", "GetProject", "DeleteProject"},
        f \in {"none", "transport", "notFound"}}
Perform(call, s) ==
    CASE call.op = "CreateProject" -> CreateProject(PlanName, FALSE, call.fault, s)
      [] call.op = "GetProject" -> GetProject(call.id, call.fault, s)
      [] call.op = "DeleteProject" -> DeleteProject(call.id, call.fault, s)

\* A goroutine enters a method: the request is built from the arguments
\* and the client's fields.
Begin(g) ==
    /\ run[g].pc \in {"idle", "returned"}
    /\ \E call \in ConcurrentCalls :
          run' = [[run EXCEPT ![g] = [Idle EXCEPT !.pc = "built", !.call = call]]
                    EXCEPT ![LocalsOf(g)].req = call]
    /\ UNCHANGED <<srv, tf, last, hist, prov>>
\* httpClient.Do and io.ReadAll: the API serves the request.
Do(g) ==
    /\ run[g].pc = "built"
    /\ LET Then(c) ==
                /\ srv' = c.srv
                /\ run' = [[run EXCEPT ![g].pc = "answered", ![g].served = Ptr(srv)]
                            EXCEPT ![LocalsOf(g)].resp = Ptr(Bare(c))]
       IN  Then(Perform(run[LocalsOf(g)].req, srv))
    /\ UNCHANGED <<tf, last, hist, prov>>
\* The method returns what it decoded.
Return(g) ==
    /\ run[g].pc = "answered"
    /\ run' = [run EXCEPT ![g].pc = "returned", ![g].ret = run[LocalsOf(g)].resp]
    /\ UNCHANGED <<srv, tf, last, hist, prov>>

SomeBegin == \E g \in Goroutines : Begin(g)
SomeDo == \E g \in Goroutines : Do(g)
SomeReturn == \E g \in Goroutines : Return(g)

ConcurrentNext == SomeBegin \/ SomeDo \/ SomeReturn

ConcurrentSpec == ClientInit /\ [][ConcurrentNext]_vars

\* Databases against an API that provisions them at its own pace.
Provisioning ==
    /\ \E status \in DatabaseStatuses : srv' = Put(srv, "createdStatus", status)
    /\ UNCHANGED <<tf, last, hist, prov, run>>
DatabaseProgressed ==
    /\ DbID \in DOMAIN srv.databases
    /\ \E status \in DatabaseStatuses :
          srv' = [srv EXCEPT !.databases[DbID].Status = status]
    /\ UNCHANGED <<tf, last, hist, prov, run>>
ProjectElsewhere ==
    \E c \in {CreateProject(PlanName, FALSE, "none", srv),
              DeleteProject(ProjID, "none", srv)} :
        /\ srv' = c.srv
        /\ UNCHANGED <<tf, last, hist, prov, run>>

StatusNext ==
    \/ Provisioning
    \/ DatabaseProgressed
    \/ ProjectElsewhere
    \/ DoDatabaseCreate
    \/ DoDatabaseRead
    \/ DoDatabaseDelete

StatusSpec == Init /\ [][StatusNext]_vars

\* The regions lookup against an API whose list of regions changes.
MaxRegions == 3
RegionPool ==
    {MockRegions[1], MockRegions[3],
     [ID |-> "eu-central-1", Name |-> "Europe (Frankfurt)", Status |-> "unavailable"]}

RegionPublished ==
    /\ Len(ReportedRegions(srv)) < MaxRegions
    /\ \E region \in RegionPool :
          srv' = Put(srv, "regions", Append(ReportedRegions(srv), region))
    /\ UNCHANGED <<tf, last, hist, prov, run>>
RegionWithdrawn ==
    /\ ReportedRegions(srv) # << >>
    /\ srv' = Put(srv, "regions", Tail(ReportedRegions(srv)))
    /\ UNCHANGED <<tf, last, hist, prov, run>>
DoRegionsRead ==
    \E f \in Faults :
        LET Done(o) ==
                /\ srv' = SrvAfter(o.calls, srv)
                /\ last' = [op |-> "Read", res |-> "regions",
                            calls |-> BareCalls(o.calls), diag |-> o.diag,
                            data |-> o.data]
                /\ UNCHANGED <<tf, hist, prov, run>>
        IN  Done(RegionsRead(f, srv))

RegionsNext ==
    \/ RegionPublished
    \/ RegionWithdrawn
    \/ CallListRegions
    \/ DoRegionsRead

RegionsSpec == Init /\ [][RegionsNext]_vars

\* The provider alone with the API: every operation of the three
\* resources and the Read of the regions data source, nobody else
\* changing the remote resources.
OperationsNext == ProviderNext \/ DoRegionsRead

OperationsSpec == Init /\ [][OperationsNext]_vars

\* Imports under every identifier, each followed by the Reads of the
\* resource imported.
ImportNext ==
    \/ DoProjectImport
    \/ DoDatabaseImport
    \/ DoConnectionImportAny
    \/ DoProjectRead
    \/ DoDatabaseRead
    \/ DoConnectionRead

ImportSpec == Init /\ [][ImportNext]_vars

\* The client package under a caller of its methods.
ClientSpec == ClientInit /\ [][ClientNext]_vars

\* The client from its construction on.
ConfigSpec == ConfigInit /\ [][ConfigNext]_vars

----------------------------------------------------------------------------
(* Properties of the resources (checked under Spec).                       *)

\* The client call the last operation made, when it made one.
MadeCall == Len(last.calls) = 1
TheCall == last.calls[1]
ReadCallOf(res) ==
    CASE res = "project" -> "GetProject"
      [] res = "database" -> "GetDatabase"
      [] res = "connection" -> "ListConnections"

\* C1: when the GET of a project or database Read, or the connection
\* listing of a connection Read, returns an API error with status 404, the
\* Read removes the resource from the state and raises no error diagnostic.
C1_ReadNotFoundRemoves ==
    (/\ last.op = "Read"
     /\ MadeCall
     /\ TheCall.op = ReadCallOf(last.res)
     /\ TheCall.err.type = "APIError"
     /\ TheCall.err.StatusCode = 404)
    => (/\ TheCall.method = "GET"
        /\ ~tf[last.res].exists
        /\ ~last.diag.hasError)

C1_Witness ==
    /\ last.op = "Read"
    /\ last.res = "database"
    /\ MadeCall
    /\ TheCall.err.type = "APIError"
    /\ TheCall.err.StatusCode = 404
    /\ ~tf.database.exists

\* C2: a Read whose call fails with anything but an API 404 (another status
\* >= 400, a transport, response-read or decode failure) raises an error
\* diagnostic and leaves the stored state as it was.
C2_ReadFailureKeepsState ==
    [][(/\ last'.op = "Read"
        /\ Len(last'.calls) = 1
        /\ last'.calls[1].err.type # "nil"
        /\ ~(last'.calls[1].err.type = "APIError"
             /\ last'.calls[1].err.StatusCode = 404))
       => (/\ last'.diag.hasError
           /\ tf' = tf
           /\ tf'[last'.res].exists)]_vars

C2_Witness ==
    /\ last.op = "Read"
    /\ MadeCall
    /\ TheCall.err.type = "error"
    /\ TheCall.err.text = "failed to decode response"
    /\ last.diag.hasError
    /\ tf[last.res].exists

\* C3: Update of a project, database or connection always ends with the
\* error diagnostic 'Update not supported', makes no client call and leaves
\* the stored state as it was, whatever the prior state and the plan.
C3_UpdateUnsupported ==
    [][last'.op = "Update"
       => (/\ last'.diag = [hasError |-> TRUE, summary |-> "Update not supported"]
           /\ last'.calls = << >>
           /\ tf' = tf)]_vars

C3_Witness ==
    /\ last.op = "Update"
    /\ last.res = "database"
    /\ tf.database.exists
    /\ last.diag.hasError

\* C4: while a database or connection that Create stored stays in the
\* state, through any number of Reads, its credential attributes equal the
\* values stored at creation, although GET and list responses carry none.
C4_ReadKeepsSecrets ==
    \A res \in {"database", "connection"} :
        (hist.issued[res].has /\ tf[res].exists)
        => \A a \in SecretsOf(res) :
              tf[res].attrs[a] = hist.issued[res].attrs[a]

C4_Witness ==
    /\ last.op = "Read"
    /\ last.res = "database"
    /\ MadeCall
    /\ TheCall.err.type = "nil"
    /\ TheCall.fault = "none"
    /\ Deref(TheCall.entity).ConnectionString = ""
    /\ IsNil(Deref(TheCall.entity).DirectConnection)
    /\ hist.issued.database.has
    /\ tf.database.exists
    /\ tf.database.attrs.connection_string.v # ""
    /\ tf.database.attrs.direct_password.v # ""

\* The attributes of a resource all null but those given.
NullBut(res, given) ==
    [a \in AttrsOf(res) |-> IF a \in DOMAIN given THEN given[a] ELSE Null]
\* The positions of the commas of an import identifier.
Commas(id) == {i \in 1..Len(id) : id[i] = ","}

\* C12: import of a project or a database stores the identifier given, as
\* it is, in the id attribute; import of a connection stores database_id
\* and id when the identifier is two non-empty parts around one comma, and
\* otherwise raises 'Unexpected Import Identifier' and stores nothing.
C12_ImportIdentifiers ==
    last.op = "ImportState"
    => IF last.res \in {"project", "database"}
       THEN /\ ~last.diag.hasError
            /\ tf[last.res] =
                  Stored(NullBut(last.res, [id |-> StringValue(Text(last.id))]))
       ELSE IF /\ Cardinality(Commas(last.id)) = 1
               /\ Commas(last.id) \cap {1, Len(last.id)} = {}
       THEN LET k == CHOOSE i \in Commas(last.id) : TRUE
            IN  /\ ~last.diag.hasError
                /\ tf.connection =
                      Stored(NullBut("connection",
                         [database_id |->
                              StringValue(Text(SubSeq(last.id, 1, k - 1))),
                          id |-> StringValue(Text(SubSeq(last.id, k + 1,
                                                         Len(last.id))))]))
       ELSE /\ last.diag = ErrorDiag("Unexpected Import Identifier")
            /\ ~tf.connection.exists

\* An identifier of three parts is refused.
C12_Witness ==
    /\ last.op = "ImportState"
    /\ last.res = "connection"
    /\ last.id = <<DbID, ",", ConnID, ",">>
    /\ last.diag.hasError
    /\ ~tf.connection.exists

\* C13: while an imported database or connection stays in the state,
\* through any number of Reads, every credential attribute of it is null:
\* none holds a value obtained from the API.
C13_NoCredentialsAfterImport ==
    \A res \in {"database", "connection"} :
        (hist.imported[res] /\ tf[res].exists)
        => \A a \in SecretsOf(res) : tf[res].attrs[a] = Null

\* A successful Read of an imported connection that the API lists.
C13_Witness ==
    /\ last.op = "Read"
    /\ last.res = "connection"
    /\ hist.imported.connection
    /\ tf.connection.exists
    /\ MadeCall
    /\ TheCall.err = NoError
    /\ tf.connection.attrs.name.st = "known"
    /\ tf.connection.attrs.password = Null

DatabaseCreated == last.op = "Create" /\ last.res = "database"

\* C24: Delete is idempotent with respect to a missing remote resource.
\* For each resource type, a Delete whose request succeeds or returns an
\* API error with status 404 raises no error diagnostic and the resource
\* leaves the state; after any other error the Delete raises an error
\* diagnostic and the resource stays in state as it was.
C24_DeleteIdempotent ==
    [][last' # last /\ last'.op = "Delete" =>
          LET res == last'.res
              c == last'.calls[1]
              gone == c.err.type = "APIError" /\ c.err.StatusCode = 404
          IN  /\ Len(last'.calls) = 1
              /\ c.method = "DELETE"
              /\ c.err = NoError \/ gone =>
                    ~tf'[res].exists /\ ~last'.diag.hasError
              /\ ~(c.err = NoError \/ gone) =>
                    tf'[res] = tf[res] /\ tf[res].exists /\ last'.diag.hasError]_vars

C24_Witness ==
    /\ last.op = "Delete"
    /\ last.res = "database"
    /\ MadeCall
    /\ TheCall.err.type = "APIError"
    /\ TheCall.err.StatusCode = 404
    /\ ~tf.database.exists
    /\ ~last.diag.hasError
    /\ DbID \in DOMAIN srv.databases

\* C26: a failed Create writes no state.  For each resource type, when
\* the create call returns an error, an API error of whatever status or a
\* local one, the Create raises an error diagnostic and no resource is in
\* state: every attribute stays null and no credential is recorded as
\* delivered.
C26_FailedCreateWritesNothing ==
    \A res \in Resources :
        /\ last.op = "Create" /\ last.res = res
        /\ Len(last.calls) >= 1
        /\ last.calls[1].err # NoError
        => /\ Len(last.calls) = 1
           /\ TheCall.op \in CreateOps
           /\ last.diag.hasError
           /\ tf[res] = Absent(AttrsOf(res))
           /\ ~hist.issued[res].has

C26_Witness ==
    /\ last.op = "Create"
    /\ last.res = "connection"
    /\ MadeCall
    /\ TheCall.fault = "none"
    /\ TheCall.err.type = "APIError"
    /\ last.diag.hasError
    /\ ~tf.connection.exists

\* C27: after a successful Create every attribute of the resource has a
\* known value in state, whatever the API answered: the identifier and
\* timestamp, the status and region of a database, and the credentials,
\* those of the direct connection being the empty string when the response
\* carries no direct connection.
C27_CreateLeavesNothingUnknown ==
    \A res \in Resources :
        /\ last.op = "Create" /\ last.res = res
        /\ MadeCall /\ TheCall.err = NoError
        => /\ tf[res].exists
           /\ \A a \in AttrsOf(res) : tf[res].attrs[a].st = "known"
           /\ res = "database" /\ IsNil(Deref(TheCall.entity).DirectConnection) =>
                \A a \in {"direct_url", "direct_host", "direct_user",
                           "direct_password"} :
                    tf[res].attrs[a] = StringValue("")

C27_Witness ==
    /\ DatabaseCreated
    /\ MadeCall
    /\ TheCall.err = NoError
    /\ IsNil(Deref(TheCall.entity).DirectConnection)
    /\ IsNil(Deref(TheCall.entity).Region)
    /\ tf.database.exists
    /\ tf.database.attrs.direct_password = StringValue("")
    /\ tf.database.attrs.region.st = "known"

\* The strings of a create response that are secret, or are built of one:
\* the connection string with its API key, the password, and the direct
\* URL that embeds the password.
SecretMaterial(res, entity) ==
    CASE res = "database" ->
            ({entity.ConnectionString} \cup
             (IF IsNil(entity.DirectConnection) THEN {}
              ELSE {Deref(entity.DirectConnection).Pass,
                    "postgresql://" \o Deref(entity.DirectConnection).User \o ":"
                        \o Deref(entity.DirectConnection).Pass \o "@"
                        \o Deref(entity.DirectConnection).Host
                        \o ":5432/postgres"})) \ {""}
      [] res = "connection" -> {entity.ConnectionString, entity.Pass} \ {""}
      [] OTHER -> {}

\* C22: every attribute holding secret material is flagged sensitive.  The
\* provider's service_token is; after a successful Create, each attribute
\* of the resource whose stored value is secret material of the response
\* is; and direct_url is whenever direct_password is.
C22_SecretsAreSensitive ==
    /\ "service_token" \in SensitiveAttrs("provider")
    /\ \A a \in DOMAIN prov.config :
          /\ ~IsNil(prov.client)
          /\ ValueString(prov.config[a]) = Deref(prov.client).serviceToken
          => a \in SensitiveAttrs("provider")
    /\ "direct_password" \in SensitiveAttrs("database")
          => "direct_url" \in SensitiveAttrs("database")
    /\ \A res \in Resources :
          /\ last.op = "Create" /\ last.res = res
          /\ MadeCall /\ TheCall.err = NoError
          /\ tf[res].exists
          => \A a \in AttrsOf(res) :
                ValueString(tf[res].attrs[a]) \in
                    SecretMaterial(res, Deref(TheCall.entity))
                => a \in SensitiveAttrs(res)

C22_Witness ==
    /\ DatabaseCreated
    /\ MadeCall
    /\ TheCall.err = NoError
    /\ tf.database.exists
    /\ ValueString(tf.database.attrs.direct_url) \in
            SecretMaterial("database", Deref(TheCall.entity))
    /\ ValueString(tf.database.attrs.direct_password) = "test_password"

\* C15: a database created without a region ends up in us-east-1.  With
\* no region in the configuration the plan's region is "us-east-1"; the
\* create request carries the plan's region, and leaves the region field
\* out of its body when that region is the empty string; and when the
\* API serves the create with no region configured or an empty one, the
\* state records region "us-east-1", the region the server placed the
\* database in.
C15_RegionDefault ==
    DatabaseCreated =>
        LET region == ValueString(last.plan.region)
            unset == IsNull(last.config.region) \/ region = ""
        IN  /\ IsNull(last.config.region) =>
                    last.plan.region = StringValue("us-east-1")
            /\ MadeCall /\ TheCall.sent > 0 =>
                    /\ region = "" => ~Has(TheCall.reqBody.obj, "region")
                    /\ region # "" =>
                          /\ Has(TheCall.reqBody.obj, "region")
                          /\ TheCall.reqBody.obj.region = region
            /\ unset /\ tf.database.exists /\ TheCall.fault = "none" =>
                    /\ tf.database.attrs.region = StringValue("us-east-1")
                    /\ Deref(Deref(TheCall.entity).Region).ID = "us-east-1"

C15_Witness ==
    /\ DatabaseCreated
    /\ IsNull(last.config.region)
    /\ MadeCall
    /\ TheCall.fault = "none"
    /\ tf.database.exists
    /\ tf.database.attrs.region = StringValue("us-east-1")

----------------------------------------------------------------------------
(* Properties of connections under pagination (checked under PagingSpec).  *)

ConnectionReadStep ==
    /\ tf.connection.exists
    /\ last' # last
    /\ last'.op = "Read"
    /\ last'.res = "connection"
    /\ Len(last'.calls) = 1
    /\ last'.calls[1].fault = "none"
    /\ last'.calls[1].kind = "response"
RemoteConnection ==
    /\ ValueString(tf.connection.attrs.database_id) = DbID
    /\ DbID \in DOMAIN srv.databases
    /\ ValueString(tf.connection.attrs.id) \in DOMAIN srv.connections

\* C23: a connection Read the API answered removes the connection from
\* state only when it no longer exists remotely (no connection of its
\* database has its ID, or the database is gone); when it exists, the
\* Read keeps it in state with name and created_at as the API holds them.
C23_ReadRemovesOnlyWhenGone ==
    [][ConnectionReadStep =>
          /\ ~tf'.connection.exists => ~RemoteConnection
          /\ RemoteConnection =>
                /\ tf'.connection.exists
                /\ tf'.connection.attrs.name =
                      StringValue(srv.connections[ValueString(
                                      tf.connection.attrs.id)].Name)
                /\ tf'.connection.attrs.created_at =
                      StringValue(srv.connections[ValueString(
                                      tf.connection.attrs.id)].CreatedAt)]_vars

\* C30: a successful Read overwrites state with the remote values and
\* nothing else.  Project Read sets name and created_at to those of the
\* response; database Read sets name, status and created_at, and sets
\* project_id and region when the response carries a project reference or
\* a region, keeping the stored values otherwise; every other attribute,
\* the id among them, is as it was before the Read.
C30_ReadOverwritesRemoteValues ==
    [][\A res \in {"project", "database"} :
          /\ last'.op = "Read" /\ last'.res = res
          /\ Len(last'.calls) = 1 /\ last'.calls[1].err = NoError
          => LET remote == Deref(last'.calls[1].entity)
                 before == tf[res].attrs
                 after == tf'[res].attrs
             IN  /\ tf[res].exists /\ tf'[res].exists
                 /\ after.id = before.id
                 /\ after.name = StringValue(remote.Name)
                 /\ after.created_at = StringValue(remote.CreatedAt)
                 /\ res = "project" =>
                       \A a \in AttrsOf(res) \ {"name", "created_at"} :
                           after[a] = before[a]
                 /\ res = "database" =>
                       /\ after.status = StringValue(remote.Status)
                       /\ after.project_id =
                             IF IsNil(remote.Project) THEN before.project_id
                             ELSE StringValue(Deref(remote.Project).ID)
                       /\ after.region =
                             IF IsNil(remote.Region) THEN before.region
                             ELSE StringValue(Deref(remote.Region).ID)
                       /\ \A a \in AttrsOf(res) \ {"name", "status", "created_at",
                                                   "project_id", "region"} :
                             after[a] = before[a]]_vars

C30_Witness ==
    /\ last.op = "Read"
    /\ last.res = "database"
    /\ MadeCall
    /\ TheCall.err = NoError
    /\ IsNil(Deref(TheCall.entity).Project)
    /\ IsNil(Deref(TheCall.entity).Region)
    /\ tf.database.exists
    /\ tf.database.attrs.id = StringValue(DbID)
    /\ tf.database.attrs.project_id = StringValue(ProjID)
    /\ tf.database.attrs.region = StringValue("eu-west-3")
    /\ tf.database.attrs.name = StringValue("")

----------------------------------------------------------------------------
(* Properties of the requests of each operation (checked under
   OperationsSpec).                                                        *)

\* The methods of the requests the last operation issued.
MethodsOf(calls) == {calls[i].method : i \in 1..Len(calls)}

\* C29: Read and Update never change the remote system.  In every step of
\* every sequence of operations, a Read (of a project, a database, a
\* connection or the regions) issues only GET requests and an Update
\* issues no request, both leaving the remote resources as they were; a
\* POST is issued by a Create only and a DELETE by a Delete only.
C29_ReadAndUpdateAreSafe ==
    [][/\ last'.op = "Read" => MethodsOf(last'.calls) \subseteq {"GET"} /\ srv' = srv
       /\ last'.op = "Update" => last'.calls = << >> /\ srv' = srv
       /\ "POST" \in MethodsOf(last'.calls) => last'.op = "Create"
       /\ "DELETE" \in MethodsOf(last'.calls) => last'.op = "Delete"]_vars

C29_Witness ==
    /\ last.op = "Read"
    /\ last.res = "database"
    /\ MadeCall
    /\ TheCall.method = "GET"
    /\ TheCall.err = NoError
    /\ DbID \in DOMAIN srv.databases
    /\ tf.database.exists

----------------------------------------------------------------------------
(* Properties of the direct connection (checked under DirectSpec).         *)

\* C28: database Create derives direct_url from the direct connection of
\* the create response.  When one is returned with a non-empty host,
\* direct_user, direct_password and direct_host hold its user, password
\* and host, and direct_url is postgresql://<user>:<pass>@<host>:5432/postgres
\* of these same values; when the host is empty or no direct connection is
\* returned, direct_url is the empty string.
C28_DirectURLDerived ==
    DatabaseCreated /\ MadeCall /\ TheCall.err = NoError =>
        LET dc == Deref(TheCall.entity).DirectConnection
            attrs == tf.database.attrs
        IN  /\ tf.database.exists
            /\ ~IsNil(dc) =>
                  /\ attrs.direct_user = StringValue(Deref(dc).User)
                  /\ attrs.direct_password = StringValue(Deref(dc).Pass)
                  /\ attrs.direct_host = StringValue(Deref(dc).Host)
            /\ ~IsNil(dc) /\ Deref(dc).Host # "" =>
                  attrs.direct_url =
                      StringValue("postgresql://" \o ValueString(attrs.direct_user)
                                  \o ":" \o ValueString(attrs.direct_password)
                                  \o "@" \o ValueString(attrs.direct_host)
                                  \o ":5432/postgres")
            /\ IsNil(dc) \/ Deref(dc).Host = "" =>
                  attrs.direct_url = StringValue("")

C28_Witness ==
    /\ DatabaseCreated
    /\ MadeCall
    /\ TheCall.err = NoError
    /\ ~IsNil(Deref(TheCall.entity).DirectConnection)
    /\ Deref(Deref(TheCall.entity).DirectConnection).Host = ""
    /\ Deref(Deref(TheCall.entity).DirectConnection).Pass = "test_password"
    /\ tf.database.attrs.direct_url = StringValue("")
    /\ tf.database.attrs.direct_password = StringValue("test_password")

----------------------------------------------------------------------------
(* Properties of the database status (checked under StatusSpec).           *)

ReturnedStatus == Field(Field(TheCall.raw.obj, "data", EmptyObj), "status", "")

\* C17: the database status is surfaced as returned and never waited on.
\* A database Create or Read the API answered with a database leaves in the
\* status attribute the status string of that answer, whichever of
\* provisioning, ready, failure or recovering it is; and a Create makes its
\* one create request only, and completes with the database in state
\* whatever status came back.
C17_StatusVerbatim ==
    /\ last.res = "database" /\ last.op \in {"Create", "Read"}
        /\ Len(last.calls) >= 1 /\ last.calls[1].err = NoError
        /\ tf.database.exists =>
            /\ Len(last.calls) = 1
            /\ TheCall.fault = "none" =>
                    /\ ReturnedStatus \in DatabaseStatuses
                    /\ tf.database.attrs.status = StringValue(ReturnedStatus)
    /\ DatabaseCreated =>
            /\ Len(last.calls) = 1
            /\ TheCall.op = "CreateDatabase"
            /\ TheCall.err = NoError => tf.database.exists /\ ~last.diag.hasError

C17_Witness ==
    /\ DatabaseCreated
    /\ MadeCall
    /\ TheCall.fault = "none"
    /\ TheCall.err = NoError
    /\ ReturnedStatus = "provisioning"
    /\ tf.database.exists
    /\ tf.database.attrs.status = StringValue("provisioning")
    /\ DbID \in DOMAIN srv.databases
    /\ srv.databases[DbID].Status = "ready"

----------------------------------------------------------------------------
(* Properties of the regions lookup (checked under RegionsSpec).           *)

ListedRegions ==
    /\ MadeCall
    /\ TheCall.op = "ListRegions"
    /\ TheCall.fault = "none"

\* C16: listing regions gives exactly the regions the API reported, in the
\* same order, none twice that was reported once and none left out: the
\* list Client.ListRegions returns is the reported list, and the regions
\* attribute the data source's Read sets has one entry per reported
\* region, in order, holding its id, name and status.
C16_RegionsAsReported ==
    [][ListedRegions' /\ srv' = srv =>
          LET reported == ReportedRegions(srv)
          IN  /\ TheCall'.err = NoError
              /\ TheCall'.list = reported
              /\ last'.op = "Read" =>
                    /\ ~IsNil(last'.data)
                    /\ Len(Deref(last'.data)) = Len(reported)
                    /\ \A i \in 1..Len(reported) :
                          /\ Deref(last'.data)[i].id = StringValue(reported[i].ID)
                          /\ Deref(last'.data)[i].name = StringValue(reported[i].Name)
                          /\ Deref(last'.data)[i].status =
                                StringValue(reported[i].Status)]_vars

C16_Witness ==
    /\ ListedRegions
    /\ last.op = "Read"
    /\ ~IsNil(last.data)
    /\ Len(Deref(last.data)) = 3
    /\ Deref(last.data)[1] = Deref(last.data)[3]
    /\ Deref(last.data)[1] # Deref(last.data)[2]
    /\ Deref(last.data)[2].status = StringValue("unavailable")

----------------------------------------------------------------------------
(* Properties of the client (checked under ClientSpec).                    *)

\* C5: a call whose HTTP response (status and body, read in full) has a
\* status >= 400 returns an *APIError carrying that status, the status
\* text of the code and the raw body, and returns no entity.
C5_ErrorStatusYieldsAPIError ==
    (MadeCall /\ TheCall.kind = "response" /\ TheCall.status >= 400)
    => (/\ TheCall.err.type = "APIError"
        /\ TheCall.err.StatusCode = TheCall.status
        /\ TheCall.status = 400 => TheCall.err.Message = "Bad Request"
        /\ TheCall.status = 404 => TheCall.err.Message = "Not Found"
        /\ TheCall.err.Body = TheCall.raw
        /\ IsNil(TheCall.entity)
        /\ TheCall.list = << >>)

C5_Witness ==
    /\ MadeCall
    /\ TheCall.op = "CreateProject"
    /\ TheCall.kind = "response"
    /\ TheCall.status = 400
    /\ TheCall.err.type = "APIError"
    /\ TheCall.err.Body = [form |-> "json", obj |-> [error |-> "invalid request"]]

\* C6 as claimed: every call sends exactly one HTTP request.
C6_ExactlyOneRequest ==
    MadeCall => TheCall.sent = 1

\* C6, amended: a call sends at most one HTTP request: none when the
\* request cannot be constructed, and otherwise exactly one, whether it
\* succeeds or fails (transport error, status >= 400, decode error).
C6_AtMostOneRequest ==
    MadeCall
    => (/\ TheCall.sent \in {0, 1}
        /\ TheCall.sent = 0 <=> (/\ TheCall.err.type = "error"
                                 /\ TheCall.err.text = "failed to create request")
        /\ TheCall.kind \in {"transport", "readfail", "response"}
              => TheCall.sent = 1)

C6_Witness ==
    /\ MadeCall
    /\ TheCall.err.text = "request failed"
    /\ TheCall.sent = 1

\* C7: a GetProject or GetDatabase for an identifier that does not exist
\* remotely, answered by the API, yields an *APIError with status 404.
C7_GetMissingIs404 ==
    (/\ MadeCall
     /\ TheCall.op \in GetOps
     /\ TheCall.fault = "none"
     /\ TheCall.kind = "response"
     /\ TheCall.arg \notin
            DOMAIN (IF TheCall.op = "GetProject" THEN srv.projects ELSE srv.databases))
    => (/\ TheCall.err.type = "APIError"
        /\ TheCall.err.StatusCode = 404
        /\ IsNil(TheCall.entity))

C7_Witness ==
    /\ MadeCall
    /\ TheCall.op = "GetProject"
    /\ TheCall.arg = MissingID
    /\ TheCall.err.type = "APIError"
    /\ TheCall.err.StatusCode = 404

\* C8: once a created project or database has been deleted by a successful
\* delete call, a get call on the same identifier yields a 404 error,
\* whatever calls on other identifiers were made in between.
C8_GetAfterDeleteIs404 ==
    (/\ MadeCall
     /\ TheCall.op \in GetOps
     /\ TheCall.fault = "none"
     /\ <<KindOf(TheCall.op), TheCall.arg>> \in hist.created
     /\ <<KindOf(TheCall.op), TheCall.arg>> \in hist.deleted)
    => (/\ TheCall.err.type = "APIError"
        /\ TheCall.err.StatusCode = 404)

C8_Witness ==
    /\ MadeCall
    /\ TheCall.op = "GetDatabase"
    /\ TheCall.arg = DbID
    /\ <<"database", DbID>> \in hist.created
    /\ <<"database", DbID>> \in hist.deleted
    /\ DOMAIN srv.connections # {}
    /\ TheCall.err.type = "APIError"
    /\ TheCall.err.StatusCode = 404

\* C9 as claimed: a create call that returns a nil error returns an entity
\* with a non-empty identifier, and a later get of that identifier that
\* returns a nil error returns the same identifier.
C9_CreatedIDNonEmptyAndStable ==
    MadeCall
    => (/\ (TheCall.op \in CreateOps /\ TheCall.err.type = "nil")
              => Deref(TheCall.entity).ID # ""
        /\ (/\ TheCall.op \in GetOps
            /\ TheCall.err.type = "nil"
            /\ <<KindOf(TheCall.op), TheCall.arg>> \in hist.created)
              => Deref(TheCall.entity).ID = TheCall.arg)

\* C10: a response with status < 400 and a non-empty body of malformed JSON
\* makes a call that expects a result return the 'failed to decode
\* response' error, which is no *APIError and is not the 'request failed'
\* error of a transport failure.
C10_MalformedBodyIsDecodeError ==
    (/\ MadeCall
     /\ TheCall.op \notin DeleteOps
     /\ TheCall.kind = "response"
     /\ TheCall.status < 400
     /\ TheCall.raw.form = "malformed")
    => (/\ TheCall.err.type = "error"
        /\ TheCall.err.text = "failed to decode response"
        /\ TheCall.err # LocalError("request failed")
        /\ IsNil(TheCall.entity))

C10_Witness ==
    /\ MadeCall
    /\ TheCall.op = "GetProject"
    /\ TheCall.status = 200
    /\ TheCall.raw.form = "malformed"
    /\ TheCall.err.text = "failed to decode response"

\* The method and path each operation is documented to use, id being the
\* identifier it is called with.
RouteOf(op, id) ==
    CASE op = "CreateProject" -> <<"POST", "/v1/projects">>
      [] op = "GetProject" -> <<"GET", "/v1/projects/" \o id>>
      [] op = "DeleteProject" -> <<"DELETE", "/v1/projects/" \o id>>
      [] op = "CreateDatabase" -> <<"POST", "/v1/projects/" \o id \o "/databases">>
      [] op = "GetDatabase" -> <<"GET", "/v1/databases/" \o id>>
      [] op = "DeleteDatabase" -> <<"DELETE", "/v1/databases/" \o id>>
      [] op = "CreateConnection" -> <<"POST", "/v1/databases/" \o id \o "/connections">>
      [] op = "ListConnections" -> <<"GET", "/v1/databases/" \o id \o "/connections">>
      [] op = "DeleteConnection" -> <<"DELETE", "/v1/connections/" \o id>>
      [] op = "ListRegions" -> <<"GET", "/v1/regions/postgres">>

\* C21: each client operation uses a fixed method and a path built from
\* its arguments, the ones of RouteOf, and a request body is sent by the
\* create operations and by no other.
C21_FixedRoutes ==
    MadeCall =>
        /\ <<TheCall.method, TheCall.path>> = RouteOf(TheCall.op, TheCall.arg)
        /\ TheCall.hasBody <=> TheCall.op \in CreateOps
        /\ TheCall.hasBody <=> TheCall.reqBody.form = "json"
        /\ TheCall.sent > 0 => TheCall.url = Deref(prov.client).baseURL \o TheCall.path

C21_Witness ==
    /\ MadeCall
    /\ TheCall.op = "DeleteConnection"
    /\ TheCall.arg = ConnID
    /\ TheCall.method = "DELETE"
    /\ TheCall.path = "/v1/connections/conn_test1"
    /\ TheCall.sent = 1
    /\ ~TheCall.hasBody

----------------------------------------------------------------------------
(* Properties of the handling of responses (checked under DecodeSpec).     *)

\* C25: the status check precedes decoding.  A response with status >= 400
\* yields an *APIError, never a decode error, whether its body is empty,
\* JSON or malformed, and nothing is decoded into the result; a response
\* with status < 400 never yields an *APIError, and when its body is empty
\* or the operation has no result target the error is nil and nothing is
\* decoded.
C25_StatusBeforeDecode ==
    MadeCall /\ TheCall.kind = "response" =>
        /\ TheCall.status >= 400 =>
              /\ TheCall.err.type = "APIError"
              /\ TheCall.err.StatusCode = TheCall.status
              /\ ~TheCall.decoded
              /\ TheCall.entity = Nil
              /\ TheCall.list = << >>
        /\ TheCall.status < 400 =>
              /\ TheCall.err.type # "APIError"
              /\ TheCall.raw.form = "empty" \/ TheCall.op \in DeleteOps =>
                    TheCall.err = NoError /\ ~TheCall.decoded
              /\ TheCall.decoded => TheCall.raw.form = "json"

C25_Witness ==
    /\ MadeCall
    /\ TheCall.op = "GetProject"
    /\ TheCall.kind = "response"
    /\ TheCall.status = StatusBadRequest
    /\ TheCall.raw.form = "malformed"
    /\ TheCall.err.type = "APIError"

----------------------------------------------------------------------------
(* Properties of cancelled calls (checked under CancelSpec).               *)

CancelledLast == Len(last.calls) >= 1 /\ last.calls[1].fault \in Cancellations

\* What a step leaves of a cancelled call, whatever its error says: a
\* non-nil error that is not an *APIError, no entity and no list, one
\* request at most, and the Terraform state as it was.
CancelledStep ==
    /\ Len(last'.calls) = 1
    /\ TheCall'.err.type = "error"
    /\ TheCall'.entity = Nil
    /\ TheCall'.list = << >>
    /\ tf' = tf
    /\ last'.op # "call" => last'.diag.hasError

\* C19 as stated: a call whose context is cancelled or expires while its
\* request is in flight returns a 'request failed' error that is no
\* *APIError and no entity, and the provider operation writes nothing to
\* state.
C19_CancelledIsRequestFailed ==
    [][CancelledLast' =>
          /\ CancelledStep
          /\ TheCall'.err.text = "request failed"]_vars

\* C19, amended: such a call returns a non-nil error that is no *APIError
\* and no entity, and the provider operation writes nothing to state; the
\* error is 'request failed' when the cancellation comes before Do has
\* returned the response, and 'failed to read response body' when it comes
\* while the body of the response is read.
C19_CancelledAborts ==
    [][CancelledLast' =>
          /\ CancelledStep
          /\ TheCall'.fault # "cancelledReading" =>
                TheCall'.err.text = "request failed"
          /\ TheCall'.fault = "cancelledReading" =>
                TheCall'.err.text = "failed to read response body"]_vars

C19_Witness ==
    /\ CancelledLast
    /\ last.op = "Delete"
    /\ last.res = "project"
    /\ TheCall.fault = "cancelledReading"
    /\ TheCall.err.text = "failed to read response body"
    /\ TheCall.status = StatusNoContent
    /\ tf.project.exists
    /\ ProjID \notin DOMAIN srv.projects

----------------------------------------------------------------------------
(* Properties of concurrent calls (checked under ConcurrentSpec).          *)

----------------------------------------------------------------------------
(* Properties of the client's construction (checked under ConfigSpec).     *)

HasClient == ~IsNil(prov.client)
TheClient == Deref(prov.client)
TheCfg == Deref(prov.cfg)

\* C11: every request a call sends, with or without a body, carries exactly
\* the headers Authorization ('Bearer ' and the configured service token),
\* Content-Type and Accept 'application/json', and User-Agent (the
\* client's user agent).
C11_RequestHeaders ==
    (MadeCall /\ TheCall.sent >= 1)
    => (/\ DOMAIN TheCall.headers =
              {"Authorization", "Content-Type", "Accept", "User-Agent"}
        /\ TheCall.headers["Authorization"] = "Bearer " \o TheCfg.ServiceToken
        /\ TheCall.headers["Content-Type"] = "application/json"
        /\ TheCall.headers["Accept"] = "application/json"
        /\ TheCall.headers["User-Agent"] =
              (IF TheCfg.UserAgent = "" THEN DefaultUserAgent
               ELSE TheCfg.UserAgent))

C11_Witness ==
    /\ MadeCall
    /\ TheCall.op = "GetProject"
    /\ ~TheCall.hasBody
    /\ TheCall.sent = 1
    /\ TheCall.headers["Authorization"] = "Bearer test-token"
    /\ TheCall.headers["User-Agent"] = TestAgent
    /\ "Content-Type" \in DOMAIN TheCall.headers

\* What the attribute and the environment variable supply.
AttrSupplies ==
    prov.config.service_token.st = "known" /\ prov.config.service_token.v # ""
EnvSupplies == prov.env.PRISMA_SERVICE_TOKEN # ""

\* C14 as claimed: whenever the service_token attribute or the variable
\* PRISMA_SERVICE_TOKEN supplies a non-empty token, Configure builds a
\* client (with the attribute's token when it is set), and it fails with
\* 'Missing Prisma Service Token' only when neither supplies one.
C14_EitherSourceSuffices ==
    prov.op = "Configure"
    => (/\ (AttrSupplies \/ EnvSupplies)
              => (/\ HasClient
                  /\ ~prov.diag.hasError
                  /\ TheClient.serviceToken =
                        (IF AttrSupplies THEN prov.config.service_token.v
                         ELSE prov.env.PRISMA_SERVICE_TOKEN))
        /\ ~(AttrSupplies \/ EnvSupplies)
              => (/\ ~HasClient
                  /\ prov.diag = ErrorDiag("Missing Prisma Service Token")))

\* C14, amended: Configure takes the token from the service_token attribute
\* whenever the attribute is not null, even when it is empty or unknown,
\* and from PRISMA_SERVICE_TOKEN only when the attribute is null; it builds
\* a client with that token when the token is non-empty and fails with
\* 'Missing Prisma Service Token', building no client, when it is empty.
C14_NonNullAttributeDecides ==
    prov.op = "Configure"
    => LET chosen == IF prov.config.service_token.st = "null"
                     THEN prov.env.PRISMA_SERVICE_TOKEN
                     ELSE prov.config.service_token.v
       IN  IF chosen # ""
           THEN /\ HasClient
                /\ ~prov.diag.hasError
                /\ TheClient.serviceToken = chosen
           ELSE /\ ~HasClient
                /\ prov.diag = ErrorDiag("Missing Prisma Service Token")

\* An empty attribute beside a token in the environment: Configure fails.
C14_Witness ==
    /\ prov.op = "Configure"
    /\ prov.config.service_token = StringValue("")
    /\ prov.env.PRISMA_SERVICE_TOKEN = EnvToken
    /\ ~HasClient
    /\ prov.diag.hasError

\* C20: NewClient keeps the configured service token; the base URL is the
\* configured one when non-empty and https://api.prisma.io otherwise, so
\* that Configure targets PRISMA_API_BASE_URL when it is set and the real
\* API when it is not, and every request goes under that base URL; the
\* user agent is the configured one when non-empty and the default
\* otherwise; the HTTP client is the configured one when given and
\* otherwise a new one with a timeout of 30 seconds.
C20_NewClientDefaults ==
    HasClient
    => (/\ TheClient.serviceToken = TheCfg.ServiceToken
        /\ TheClient.baseURL =
              (IF TheCfg.BaseURL = "" THEN "https://api.prisma.io"
               ELSE TheCfg.BaseURL)
        /\ prov.op = "Configure"
              => TheClient.baseURL =
                    (IF prov.env.PRISMA_API_BASE_URL = ""
                     THEN "https://api.prisma.io"
                     ELSE prov.env.PRISMA_API_BASE_URL)
        /\ (MadeCall /\ TheCall.sent >= 1)
              => TheCall.url = Deref(prov.client).baseURL \o TheCall.path
        /\ TheClient.userAgent =
              (IF TheCfg.UserAgent = ""
               THEN "terraform-provider-prisma-postgres/1.0"
               ELSE TheCfg.UserAgent)
        /\ TheClient.httpClient =
              (IF IsNil(TheCfg.HTTPClient)
               THEN [madeBy |-> "NewClient", Timeout |-> 30]
               ELSE Deref(TheCfg.HTTPClient)))

\* A request of a provider configured with PRISMA_API_BASE_URL set.
C20_Witness ==
    /\ prov.op = "Configure"
    /\ prov.env.PRISMA_API_BASE_URL = MockURL
    /\ HasClient
    /\ MadeCall
    /\ TheCall.url = MockURL \o "/v1/regions/postgres"
    /\ TheClient.httpClient.Timeout = 30

====
